---- MODULE Spec2Model ----
(***************************************************************************)
(* Review processing pipeline of the code review API.                      *)
(*                                                                         *)
(* The model follows app/agents/code_reviews_agent.py (process_code_review *)
(* and check_compliance) and app/agents/git_repos_agent.py                 *)
(* (process_repositories).  Every review is processed by one worker        *)
(* process; the workers share the code_reviews collection, the read-only   *)
(* catalogs and the directory /app/data/codebase.                          *)
(***************************************************************************)
EXTENDS Integers, Sequences, FiniteSets, TLC

VARIABLES
    status,              \* code_reviews collection: persisted status of each review
    compliance_reports,  \* code_reviews collection: persisted compliance_reports of each review
    fs,                  \* files of CODEBASE_DIR that hold flattened codebases, by path
    report_files,        \* report files written by check_compliance: <<review, set name>>
    repository_url,      \* argument repository_url of each process_code_review run
    standard_sets,       \* argument standard_sets of each process_code_review run
    pc,                  \* position of each worker in process_code_review
    codebase_file,       \* local codebase_file of each run (NoPath is Python's None)
    matching,            \* local matching_classification_ids of each run
    idx,                 \* position of the for loop over standard_sets (1-based)
    reports,             \* local compliance_reports list of each run
    outcome,             \* how the run left process_code_review
    failedAt,            \* history: the step whose exception entered the outer except
    extCalls,            \* history: kinds of external calls the run has made
    skipped,             \* history: <<index, reason>> of every standard set skipped
    produced,            \* history: indices of the standard sets that got a report, in order
    classifiedOk,        \* history: acquisition and classification both succeeded
    unlinkFailed,        \* history: codebase_file.unlink() raised in the finally block
    dbOps,               \* history: database operations each run has issued
    svc,                 \* CodeReviewService.create_review: one call, its position and effects
    ev,                  \* check_compliance called on its own: position, locals, clock, calls
    fl,                  \* flatten_repository called on its own: the walk and the output file
    sel,                 \* the standards query applied to a catalog
    cli,                 \* AnthropicClient: settings, singletons, one create_message call
    wk,                  \* run_async_in_process: the connections of one worker process
    acq                  \* process_repositories called on its own: directories and files

dbVars == <<status, compliance_reports>>
fileVars == <<fs, report_files>>
inputVars == <<repository_url, standard_sets>>
localVars == <<pc, codebase_file, matching, idx, reports, outcome>>
histVars == <<failedAt, extCalls, skipped, produced, classifiedOk, unlinkFailed, dbOps>>
auxVars == <<svc, ev, fl, sel, cli, wk, acq>>
vars == <<dbVars, fileVars, inputVars, localVars, histVars, auxVars>>

\* value of svc, ev, fl, sel, cli, wk or acq while that operation is not being run
Idle == [pc |-> "idle"]

---------------------------------------------------------------------------
(* Bounds *)

\* longest standard_sets list handed to a run that is alone
MaxSets == 2

---------------------------------------------------------------------------
(* Reviews, repositories and catalogs *)

ReviewIds == {"r1", "r2"}

\* A repository URL is <<owner, basename>>; the basename is a sequence of
\* tokens so that the removal of ".git" is computed, not assumed.
RepositoryUrls ==
    { <<"org1", <<"app">>>>,
      <<"org2", <<"app", ".git">>>>,
      <<"org1", <<"lib">>>> }

NoUrl == <<>>
NoPath == <<>>

\* os.path.basename(repository_url).replace('.git', '')
RepoName(url) == SelectSeq(url[2], LAMBDA t : t # ".git")

\* CODEBASE_DIR / f"{repo_name}.txt"
CodebaseFilePath(url) == <<"codebase">> \o RepoName(url) \o <<".txt">>

ArtifactPaths == { CodebaseFilePath(u) : u \in RepositoryUrls }

\* A file of CODEBASE_DIR: missing, or the flattened text of one repository.
\* complete is FALSE when the writer stopped before the walk ended.
NoFile == [exists |-> FALSE, url |-> NoUrl, complete |-> FALSE, writer |-> "nobody"]
FlatFile(r, url, done) == [exists |-> TRUE, url |-> url, complete |-> done, writer |-> r]

\* ReviewStatus
PENDING == "PENDING"
IN_PROGRESS == "IN_PROGRESS"
COMPLETED == "COMPLETED"
FAILED == "FAILED"
NoReview == "NO_DOCUMENT"

\* classifications catalog
ClassificationIds == {"py", "js"}
ClassificationName(c) == IF c = "py" THEN "Python" ELSE "JavaScript"

\* standard_sets catalog: id -> name
StandardSetIds == {"A", "B", "C"}
StandardSetName(s) ==
    CASE s = "A" -> "Alpha"
      [] s = "B" -> "Beta"
      [] s = "C" -> "Gamma"
      [] OTHER -> "Unknown"

\* ids a caller may put in standard_sets: the catalog's, a well-formed id
\* without a record, and a string that is no ObjectId
WellFormedIds == StandardSetIds \cup {"gone"}
RequestedIds == WellFormedIds \cup {"not-an-id"}

\* the classification_ids field of a standard document: an array of ids,
\* an explicit null, or no field at all
IdList(ids) == [kind |-> "list", ids |-> ids]
NullField == [kind |-> "null", ids |-> {}]
MissingField == [kind |-> "missing", ids |-> {}]

\* standards catalog, in catalog order
StandardsCatalog ==
    << [id |-> "std1", standard_set_id |-> "A", classification_ids |-> IdList({})],
       [id |-> "std2", standard_set_id |-> "A", classification_ids |-> IdList({"py"})],
       [id |-> "std3", standard_set_id |-> "B", classification_ids |-> IdList({"js"})] >>

---------------------------------------------------------------------------
(* Helpers of the pipeline *)

Range(q) == { q[i] : i \in 1..Len(q) }

\* ensure_object_id: a well-formed id converts, any other string raises ValueError
ValidObjectIdFormat(s) == s \in WellFormedIds

\* db.standard_sets.find_one({"_id": object_id})
FindStandardSet(s) == s \in StandardSetIds

\* {"classification_ids": obj_id}: the field is an array that holds obj_id
ClauseHoldsId(doc, c) ==
    doc.classification_ids.kind = "list" /\ c \in doc.classification_ids.ids

\* {"classification_ids": {"$size": 0}}: the field is an array of length 0
ClauseSizeZero(doc) ==
    doc.classification_ids.kind = "list" /\ doc.classification_ids.ids = {}

\* {"classification_ids": {"$exists": False}}: the document has no such field
ClauseNotExists(doc) == doc.classification_ids.kind = "missing"

\* {"classification_ids": None}: the field is null or the document has none
ClauseIsNone(doc) == doc.classification_ids.kind \in {"null", "missing"}

\* the inner "$or" of the query: the three clauses for a standard that is not
\* tied to any classification
ClauseUnclassifiedSizeOnly(doc) == ClauseSizeZero(doc)
ClauseUnclassified(doc) ==
    ClauseSizeZero(doc) \/ ClauseNotExists(doc) \/ ClauseIsNone(doc)

\* the query document built for one standard set, applied to one document
QueryMatches(doc, sid, matched) ==
    /\ doc.standard_set_id = sid
    /\ \/ \E c \in matched : ClauseHoldsId(doc, c)
       \/ ClauseUnclassified(doc)

\* db.standards.find(query).to_list(None) over a catalog: the matching
\* documents in the order the collection returns them
FindStandards(catalog, sid, matched) ==
    SelectSeq(catalog, LAMBDA doc : QueryMatches(doc, sid, matched))

\* the selection of process_code_review for one standard set
QueryStandards(sid, matched) == FindStandards(StandardsCatalog, sid, matched)

\* "if not standards: continue"
SelectionIsEmptyNeverSkips(stds) == FALSE
SelectionIsEmpty(stds) == stds = <<>>

\* where an exception raised while one standard set is processed leads:
\* "except Exception: ... continue" resumes the for loop
StandardSetErrorAbortsRun == "except"
StandardSetErrorTarget == "loop"

\* the compliance_reports argument of repo.update_status
NoReportsArg == [given |-> FALSE, list |-> <<>>]
ReportsArg(list) == [given |-> TRUE, list |-> list]

\* update_status(review_id, ReviewStatus.FAILED) passes no reports
FailedWriteAttachesReports(r) == ReportsArg(reports[r])
FailedWriteArg(r) == NoReportsArg

\* update_status(review_id, ReviewStatus.COMPLETED, compliance_reports)
CompletedWriteArg(r) == ReportsArg(reports[r])

\* the first statement of the try block after the connection is taken:
\* the IN_PROGRESS write precedes process_repositories
EntryPointSkipsInProgress == "acquire"
EntryPoint == "start"

\* the review_id that process_code_review passes to repo.update_status: its
\* own argument
WrittenReviewIdOther(r) == IF r = "r1" THEN "r2" ELSE "r1"
WrittenReviewId(r) == r

\* a database operation: collection, method, and the id it addresses ("*"
\* when the filter names no id)
DbOp(collection, method, id) == <<collection, method, id>>

\* repo.update_status(review_id, ...)
StatusUpdateOp(r) == DbOp("code_reviews", "update_status", WrittenReviewId(r))

\* the operations are added to those the run has issued
LogDbOps(r, ops) == dbOps' = [dbOps EXCEPT ![r] = @ \cup ops]

\* the reads of one turn of the loop: find_one on standard_sets for a
\* well-formed id, then find on standards when the record exists
SelectionReads(sid) ==
    IF ~ValidObjectIdFormat(sid) THEN {}
    ELSE {DbOp("standard_sets", "find_one", sid)}
         \cup (IF FindStandardSet(sid) THEN {DbOp("standards", "find", sid)} ELSE {})

\* CodeReviewRepository.update_status when the write succeeds: one write that
\* sets status and, when a list is passed, compliance_reports
UpdateStatus(r, st, arg) ==
    /\ status' = [status EXCEPT ![WrittenReviewId(r)] = st]
    /\ compliance_reports' =
           IF arg.given
           THEN [compliance_reports EXCEPT ![WrittenReviewId(r)] = arg.list]
           ELSE compliance_reports

\* the combined report text of check_compliance as the pipeline attaches it:
\* header (set name, matched classification names; the Date line is left out
\* here and modelled by ReportHeader), one section per standard evaluated on
\* the codebase text that was read
CombinedReport(name, matched, stds, file) ==
    [ standard_set_name |-> name,
      classifications |-> { ClassificationName(c) : c \in matched },
      standards |-> [ i \in 1..Len(stds) |-> stds[i].id ],
      codebase |-> file.url,
      codebase_complete |-> file.complete ]

\* compliance_reports.append({...}): the new entry goes to the end of the list
PrependReport(list, rep) == <<rep>> \o list
AppendReport(list, rep) == Append(list, rep)

\* report_file = codebase_file.parent / f"{review_id}-{standard_set_name}.md"
ReportFileIsCodebaseFile(path, r, name) == path
ReportFilePath(path, r, name) == <<path[1], r, "-", name, ".md">>

\* the entry appended to compliance_reports: "file" is str(report_file), the
\* path check_compliance returned
ComplianceReport(r, name, path, text) ==
    [ standard_set_name |-> name,
      file |-> ReportFilePath(path, r, name),
      report |-> text ]

---------------------------------------------------------------------------
(* Initial states: the reviews exist as PENDING documents without reports,  *)
(* their workers have been started and have not yet run a statement.        *)

\* every standard_sets list of at most n requested ids
ListsUpTo(n) == UNION { [1..k -> RequestedIds] : k \in 0..n }

\* two reviews at the same time: the first reviews one repository against
\* one standard set, the second any repository (same URL, same basename under
\* another owner, another basename) against one of these lists
ConcurrentUrl == <<"org1", <<"app">>>>
ConcurrentLists == { <<"A">>, <<"not-an-id", "A">> }

InitCommon ==
    /\ compliance_reports = [r \in ReviewIds |-> <<>>]
    /\ fs = [p \in ArtifactPaths |-> NoFile]
    /\ report_files = {}
    /\ codebase_file = [r \in ReviewIds |-> NoPath]
    /\ matching = [r \in ReviewIds |-> {}]
    /\ idx = [r \in ReviewIds |-> 1]
    /\ reports = [r \in ReviewIds |-> <<>>]
    /\ outcome = [r \in ReviewIds |-> "running"]
    /\ failedAt = [r \in ReviewIds |-> "none"]
    /\ extCalls = [r \in ReviewIds |-> {}]
    /\ skipped = [r \in ReviewIds |-> {}]
    /\ produced = [r \in ReviewIds |-> <<>>]
    /\ classifiedOk = [r \in ReviewIds |-> FALSE]
    /\ unlinkFailed = [r \in ReviewIds |-> FALSE]
    /\ dbOps = [r \in ReviewIds |-> {}]

\* the components that are modelled on their own are not running
InitAuxIdle ==
    /\ svc = Idle
    /\ ev = Idle
    /\ fl = Idle
    /\ sel = Idle
    /\ cli = Idle
    /\ wk = Idle
    /\ acq = Idle

\* one review, alone, with any repository and any list of standard sets
InitAlone ==
    /\ status = [r \in ReviewIds |-> IF r = "r1" THEN PENDING ELSE NoReview]
    /\ pc = [r \in ReviewIds |-> IF r = "r1" THEN EntryPoint ELSE "none"]
    /\ \E u \in RepositoryUrls :
           repository_url = [r \in ReviewIds |-> IF r = "r1" THEN u ELSE NoUrl]
    /\ \E l \in ListsUpTo(MaxSets) :
           standard_sets = [r \in ReviewIds |-> IF r = "r1" THEN l ELSE <<>>]
    /\ InitCommon
    /\ InitAuxIdle

\* two reviews whose workers run concurrently
InitConcurrent ==
    /\ status = [r \in ReviewIds |-> PENDING]
    /\ pc = [r \in ReviewIds |-> EntryPoint]
    /\ \E u \in RepositoryUrls :
           repository_url = [r \in ReviewIds |-> IF r = "r1" THEN ConcurrentUrl ELSE u]
    /\ \E l \in ConcurrentLists :
           standard_sets = [r \in ReviewIds |-> IF r = "r1" THEN <<"A">> ELSE l]
    /\ InitCommon
    /\ InitAuxIdle

Init == InitAlone \/ InitConcurrent

---------------------------------------------------------------------------
(* process_code_review, one action per step of worker r *)

\* await repo.update_status(review_id, ReviewStatus.IN_PROGRESS)
MarkInProgress(r) ==
    /\ pc[r] = "start"
    /\ \E ok \in BOOLEAN :
           IF ok
           THEN /\ UpdateStatus(r, IN_PROGRESS, NoReportsArg)
                /\ pc' = [pc EXCEPT ![r] = "acquire"]
                /\ UNCHANGED failedAt
           ELSE /\ pc' = [pc EXCEPT ![r] = "except"]
                /\ failedAt' = [failedAt EXCEPT ![r] = "in_progress_write"]
                /\ UNCHANGED dbVars
    /\ UNCHANGED <<fileVars, inputVars, codebase_file, matching, idx, reports, outcome,
                   extCalls, skipped, produced, classifiedOk, unlinkFailed>>
    /\ LogDbOps(r, {StatusUpdateOp(r)})
    /\ UNCHANGED auxVars

\* codebase_file = await process_repositories(repository_url):
\* clone into a temporary directory, then flatten_repository opens the output
\* file for writing and walks the clone
ProcessRepositories(r) ==
    /\ pc[r] = "acquire"
    /\ extCalls' = [extCalls EXCEPT ![r] = @ \cup {"clone"}]
    /\ LET path == CodebaseFilePath(repository_url[r]) IN
       \E res \in {"clone_failed", "flatten_failed", "ok"} :
           CASE res = "clone_failed" ->
                    \* git.Repo.clone_from raises: the output file is not opened
                    /\ pc' = [pc EXCEPT ![r] = "except"]
                    /\ failedAt' = [failedAt EXCEPT ![r] = "acquisition"]
                    /\ UNCHANGED <<fs, codebase_file>>
             [] res = "flatten_failed" ->
                    \* open(output_file, 'w') has truncated the file and an error
                    \* that flatten_repository does not catch ends the walk
                    /\ fs' = [fs EXCEPT ![path] = FlatFile(r, repository_url[r], FALSE)]
                    /\ pc' = [pc EXCEPT ![r] = "except"]
                    /\ failedAt' = [failedAt EXCEPT ![r] = "acquisition"]
                    /\ UNCHANGED codebase_file
             [] OTHER ->
                    /\ fs' = [fs EXCEPT ![path] = FlatFile(r, repository_url[r], TRUE)]
                    /\ codebase_file' = [codebase_file EXCEPT ![r] = path]
                    /\ pc' = [pc EXCEPT ![r] = "classify"]
                    /\ UNCHANGED failedAt
    /\ UNCHANGED <<dbVars, report_files, inputVars, matching, idx, reports, outcome,
                   skipped, produced, classifiedOk, unlinkFailed>>
    /\ UNCHANGED dbOps
    /\ UNCHANGED auxVars

\* raw_classifications = await db.classifications.find().to_list(None)
\* matching_classification_ids = await analyze_codebase_classifications(...)
Classify(r) ==
    /\ pc[r] = "classify"
    /\ \E res \in {"catalog_error", "classification_error", "ok"} :
           CASE res = "catalog_error" ->
                    /\ extCalls' = [extCalls EXCEPT ![r] = @ \cup {"catalog"}]
                    /\ pc' = [pc EXCEPT ![r] = "except"]
                    /\ failedAt' = [failedAt EXCEPT ![r] = "classification"]
                    /\ UNCHANGED <<matching, classifiedOk>>
             [] res = "classification_error" ->
                    /\ extCalls' = [extCalls EXCEPT ![r] = @ \cup {"catalog", "model"}]
                    /\ pc' = [pc EXCEPT ![r] = "except"]
                    /\ failedAt' = [failedAt EXCEPT ![r] = "classification"]
                    /\ UNCHANGED <<matching, classifiedOk>>
             [] OTHER ->
                    \* any subset of the catalog, the empty one included
                    /\ \E m \in SUBSET ClassificationIds :
                           matching' = [matching EXCEPT ![r] = m]
                    /\ extCalls' = [extCalls EXCEPT ![r] = @ \cup {"catalog", "model"}]
                    /\ classifiedOk' = [classifiedOk EXCEPT ![r] = TRUE]
                    /\ pc' = [pc EXCEPT ![r] = "loop"]
                    /\ UNCHANGED failedAt
    /\ UNCHANGED <<dbVars, fileVars, inputVars, codebase_file, idx, reports, outcome,
                   skipped, produced, unlinkFailed>>
    /\ LogDbOps(r, {DbOp("classifications", "find", "*")})
    /\ UNCHANGED auxVars

\* "continue" after a logged condition: the loop goes on with the next set
ContinueLoop(r, reason) ==
    /\ skipped' = [skipped EXCEPT ![r] = @ \cup {<<idx[r], reason>>}]
    /\ idx' = [idx EXCEPT ![r] = @ + 1]
    /\ pc' = [pc EXCEPT ![r] = "loop"]
    /\ UNCHANGED failedAt

\* an exception raised inside the try block of the loop body
StandardSetError(r, reason) ==
    /\ skipped' = [skipped EXCEPT ![r] = @ \cup {<<idx[r], reason>>}]
    /\ idx' = [idx EXCEPT ![r] = @ + 1]
    /\ pc' = [pc EXCEPT ![r] = StandardSetErrorTarget]
    /\ failedAt' = IF StandardSetErrorTarget = "loop"
                   THEN failedAt
                   ELSE [failedAt EXCEPT ![r] = "standard_set"]

\* loop body up to the selection of the standards: ensure_object_id,
\* db.standard_sets.find_one, db.standards.find(query)
SelectStandards(r) ==
    /\ pc[r] = "loop"
    /\ idx[r] <= Len(standard_sets[r])
    /\ LET sid == standard_sets[r][idx[r]] IN
       \E dbOk \in BOOLEAN :
           IF ~ValidObjectIdFormat(sid)
           THEN /\ StandardSetError(r, "invalid_id")
                /\ UNCHANGED extCalls
           ELSE /\ extCalls' = [extCalls EXCEPT ![r] = @ \cup {"catalog"}]
                /\ IF ~dbOk
                   THEN StandardSetError(r, "db_error")
                   ELSE IF ~FindStandardSet(sid)
                   THEN ContinueLoop(r, "not_found")
                   ELSE IF SelectionIsEmpty(QueryStandards(sid, matching[r]))
                   THEN ContinueLoop(r, "no_standards")
                   ELSE /\ pc' = [pc EXCEPT ![r] = "check"]
                        /\ UNCHANGED <<skipped, idx, failedAt>>
    /\ UNCHANGED <<dbVars, fileVars, inputVars, codebase_file, matching, reports, outcome,
                   produced, classifiedOk, unlinkFailed>>
    /\ LogDbOps(r, SelectionReads(standard_sets[r][idx[r]]))
    /\ UNCHANGED auxVars

\* report_file = await check_compliance(...) and compliance_reports.append(...):
\* classification names are read, the codebase file is read, every standard is
\* sent to the model, the combined report is written next to the codebase file
CheckCompliance(r) ==
    /\ pc[r] = "check"
    /\ LET sid  == standard_sets[r][idx[r]]
           name == StandardSetName(sid)
           stds == QueryStandards(sid, matching[r])
           file == fs[codebase_file[r]]
       IN
       \E res \in {"names_error", "model_error", "ok"} :
           /\ extCalls' = [extCalls EXCEPT ![r] =
                  @ \cup {"catalog"}
                    \cup (IF res # "names_error" /\ file.exists /\ stds # <<>>
                          THEN {"model"} ELSE {})]
           /\ IF res = "ok" /\ file.exists
              THEN /\ report_files' = report_files \cup {<<r, name>>}
                   /\ reports' = [reports EXCEPT ![r] =
                          AppendReport(@, ComplianceReport(r, name, codebase_file[r],
                                     CombinedReport(name, matching[r], stds, file)))]
                   /\ produced' = [produced EXCEPT ![r] = Append(@, idx[r])]
                   /\ idx' = [idx EXCEPT ![r] = @ + 1]
                   /\ pc' = [pc EXCEPT ![r] = "loop"]
                   /\ UNCHANGED <<skipped, failedAt>>
              ELSE /\ StandardSetError(r, "check_failed")
                   /\ UNCHANGED <<report_files, reports, produced>>
    /\ UNCHANGED <<dbVars, fs, inputVars, codebase_file, matching, outcome,
                   classifiedOk, unlinkFailed>>
    /\ LogDbOps(r, {DbOp("classifications", "find", "*")})
    /\ UNCHANGED auxVars

\* await repo.update_status(review_id, ReviewStatus.COMPLETED, compliance_reports)
MarkCompleted(r) ==
    /\ pc[r] = "loop"
    /\ idx[r] > Len(standard_sets[r])
    /\ \E ok \in BOOLEAN :
           IF ok
           THEN /\ UpdateStatus(r, COMPLETED, CompletedWriteArg(r))
                /\ pc' = [pc EXCEPT ![r] = "cleanup"]
                /\ outcome' = [outcome EXCEPT ![r] = "returned"]
                /\ UNCHANGED failedAt
           ELSE /\ pc' = [pc EXCEPT ![r] = "except"]
                /\ failedAt' = [failedAt EXCEPT ![r] = "completed_write"]
                /\ UNCHANGED <<dbVars, outcome>>
    /\ UNCHANGED <<fileVars, inputVars, codebase_file, matching, idx, reports,
                   extCalls, skipped, produced, classifiedOk, unlinkFailed>>
    /\ LogDbOps(r, {StatusUpdateOp(r)})
    /\ UNCHANGED auxVars

\* except Exception: await repo.update_status(review_id, ReviewStatus.FAILED)
\* and raise ProcessingError; when the write raises, its error leaves instead
HandleException(r) ==
    /\ pc[r] = "except"
    /\ \E ok \in BOOLEAN :
           IF ok
           THEN /\ UpdateStatus(r, FAILED, FailedWriteArg(r))
                /\ outcome' = [outcome EXCEPT ![r] = "ProcessingError"]
           ELSE /\ outcome' = [outcome EXCEPT ![r] = "write_error"]
                /\ UNCHANGED dbVars
    /\ pc' = [pc EXCEPT ![r] = "cleanup"]
    /\ UNCHANGED <<fileVars, inputVars, codebase_file, matching, idx, reports,
                   failedAt, extCalls, skipped, produced, classifiedOk, unlinkFailed>>
    /\ LogDbOps(r, {StatusUpdateOp(r)})
    /\ UNCHANGED auxVars

\* the report files left by the finally block: codebase_file.unlink() names
\* one file, the flattened codebase, and nothing else is removed
ReportFilesRemovedWithArtifact(r, files) == { f \in files : f[1] # r }
ReportFilesAfterCleanup(r, files) == files

\* finally: if codebase_file and codebase_file.exists(): codebase_file.unlink()
Cleanup(r) ==
    /\ pc[r] = "cleanup"
    /\ IF codebase_file[r] # NoPath /\ fs[codebase_file[r]].exists
       THEN \E ok \in BOOLEAN :
                IF ok
                THEN /\ fs' = [fs EXCEPT ![codebase_file[r]] = NoFile]
                     /\ UNCHANGED unlinkFailed
                ELSE /\ unlinkFailed' = [unlinkFailed EXCEPT ![r] = TRUE]
                     /\ UNCHANGED fs
       ELSE UNCHANGED <<fs, unlinkFailed>>
    /\ pc' = [pc EXCEPT ![r] = "done"]
    /\ report_files' = ReportFilesAfterCleanup(r, report_files)
    /\ UNCHANGED <<dbVars, inputVars, codebase_file, matching, idx, reports,
                   outcome, failedAt, extCalls, skipped, produced, classifiedOk>>
    /\ UNCHANGED dbOps
    /\ UNCHANGED auxVars

Next ==
    \E r \in ReviewIds :
        \/ MarkInProgress(r)
        \/ ProcessRepositories(r)
        \/ Classify(r)
        \/ SelectStandards(r)
        \/ CheckCompliance(r)
        \/ MarkCompleted(r)
        \/ HandleException(r)
        \/ Cleanup(r)

Spec == Init /\ [][Next]_vars

---------------------------------------------------------------------------
(* Properties of the review lifecycle *)

\* C1: over every run, failed steps and failed status writes included, the
\* persisted status of a review changes only along PENDING -> IN_PROGRESS,
\* IN_PROGRESS -> COMPLETED and IN_PROGRESS -> FAILED.
C1_StatusLifecycle ==
    [][ \A r \in ReviewIds :
            status'[r] # status[r] =>
                <<status[r], status'[r]>> \in
                    { <<PENDING, IN_PROGRESS>>,
                      <<IN_PROGRESS, COMPLETED>>,
                      <<IN_PROGRESS, FAILED>> } ]_vars


Finished(r) == pc[r] = "done"
Running(r) == pc[r] \notin {"none", "done"}

\* indices of standard_sets[r] that were skipped, for any reason
SkippedIdx(r) == { e[1] : e \in skipped[r] }

\* indices skipped because a catalog read or check_compliance raised
ErroredIdx(r) == { e[1] : e \in { x \in skipped[r] : x[2] \in {"db_error", "check_failed"} } }

\* indices whose id is well formed, has a record and selects >= 1 standard
MatchingIdx(r) ==
    { i \in 1..Len(standard_sets[r]) :
        /\ ValidObjectIdFormat(standard_sets[r][i])
        /\ FindStandardSet(standard_sets[r][i])
        /\ QueryStandards(standard_sets[r][i], matching[r]) # <<>> }

\* the k-th report of the list was generated for the k-th set that got one
ReportsMatchProduced(r, list) ==
    /\ Len(list) = Len(produced[r])
    /\ \A k \in 1..Len(list) :
           list[k].standard_set_name = StandardSetName(standard_sets[r][produced[r][k]])

\* every skip has the cause the loop body names for it
SkipJustified(r) ==
    \A e \in skipped[r] :
        LET sid == standard_sets[r][e[1]] IN
        CASE e[2] = "invalid_id"   -> ~ValidObjectIdFormat(sid)
          [] e[2] = "not_found"    -> ValidObjectIdFormat(sid) /\ ~FindStandardSet(sid)
          [] e[2] = "no_standards" -> FindStandardSet(sid)
                                      /\ QueryStandards(sid, matching[r]) = <<>>
          [] e[2] = "db_error"     -> ValidObjectIdFormat(sid)
          [] e[2] = "check_failed" -> e[1] \in MatchingIdx(r)
          [] OTHER -> FALSE

\* C2 as stated: once acquisition and classification have succeeded, a bad
\* standard set is only skipped, every set of the list is processed and the
\* run ends with status COMPLETED and reports for exactly the sets not skipped.
C2_SkipsEndCompleted ==
    \A r \in ReviewIds :
        (classifiedOk[r] /\ Finished(r)) =>
            /\ status[r] = COMPLETED
            /\ SkippedIdx(r) \cup Range(produced[r]) = 1..Len(standard_sets[r])
            /\ ReportsMatchProduced(r, compliance_reports[r])

\* C2 amended: once acquisition and classification have succeeded, no failure
\* of a standard set enters the outer except; every set of the list is either
\* skipped for its own cause or gets a report before the run leaves the loop;
\* the write after the loop is COMPLETED with the reports of the sets not
\* skipped, and the status ends COMPLETED unless that write itself fails.
C2_SkipsContained ==
    \A r \in ReviewIds :
        classifiedOk[r] =>
            /\ failedAt[r] \in {"none", "completed_write"}
            /\ SkipJustified(r)
            /\ SkippedIdx(r) \cap Range(produced[r]) = {}
            /\ SkippedIdx(r) \cup Range(produced[r]) = 1..(idx[r] - 1)
            /\ ReportsMatchProduced(r, reports[r])
            /\ pc[r] \in {"except", "cleanup", "done"} => idx[r] = Len(standard_sets[r]) + 1
            /\ (Finished(r) /\ failedAt[r] = "none") =>
                   /\ status[r] = COMPLETED
                   /\ compliance_reports[r] = reports[r]

\* C2 witness: a finished COMPLETED review with a skipped set followed by a
\* set that got its report
C2_Witness ==
    \E r \in ReviewIds :
        /\ Finished(r) /\ status[r] = COMPLETED
        /\ \E i \in SkippedIdx(r) : \E k \in 1..Len(produced[r]) : i < produced[r][k]
        /\ Len(compliance_reports[r]) = Len(produced[r])

\* C3 as stated: with >= 1 valid standard set and >= 1 matching standard the
\* run ends COMPLETED and the number of attached reports is the number of
\* requested sets that produced >= 1 matching standard.
C3_ReportCountIsMatchingSets ==
    \A r \in ReviewIds :
        (classifiedOk[r] /\ Finished(r) /\ MatchingIdx(r) # {}) =>
            /\ status[r] = COMPLETED
            /\ Len(compliance_reports[r]) = Cardinality(MatchingIdx(r))

\* C3 amended: with >= 1 valid standard set and >= 1 matching standard, a run
\* whose COMPLETED write succeeds ends COMPLETED and the number of attached
\* reports is the number of requested sets that produced >= 1 matching
\* standard and whose catalog reads and check_compliance call did not fail.
C3_ReportCountIsEvaluatedSets ==
    \A r \in ReviewIds :
        (classifiedOk[r] /\ Finished(r) /\ MatchingIdx(r) # {} /\ failedAt[r] = "none") =>
            /\ status[r] = COMPLETED
            /\ Len(compliance_reports[r]) = Cardinality(MatchingIdx(r) \ ErroredIdx(r))

\* C3 witness: a COMPLETED review whose list holds an invalid id and whose
\* report count is positive and below the length of the list
C3_Witness ==
    \E r \in ReviewIds :
        /\ Finished(r) /\ status[r] = COMPLETED
        /\ \E i \in 1..Len(standard_sets[r]) : ~ValidObjectIdFormat(standard_sets[r][i])
        /\ Len(compliance_reports[r]) >= 1
        /\ Len(compliance_reports[r]) = Cardinality(MatchingIdx(r))
        /\ Len(compliance_reports[r]) < Len(standard_sets[r])

\* C4: when repository acquisition fails, no standard set is processed, the
\* status ends FAILED without reports and ProcessingError is raised after the
\* FAILED write.
C4_AcquisitionFailureEndsFailed ==
    \A r \in ReviewIds :
        (Finished(r) /\ failedAt[r] = "acquisition") =>
            /\ skipped[r] = {} /\ produced[r] = <<>>
            /\ status[r] = FAILED
            /\ compliance_reports[r] = <<>>
            /\ outcome[r] = "ProcessingError"

\* C5: a classification failure is fatal (no standard set is selected or
\* evaluated, the status ends FAILED); an empty classification result is no
\* failure and the run goes on to the standard-set loop.
C5_ClassificationFailureFatal ==
    \A r \in ReviewIds :
        /\ (Finished(r) /\ failedAt[r] = "classification") =>
               /\ skipped[r] = {} /\ produced[r] = <<>>
               /\ status[r] = FAILED
        /\ (classifiedOk[r] /\ matching[r] = {}) => failedAt[r] # "classification"

\* C6: compliance_reports is populated only when status is COMPLETED; the
\* list is attached by the write that sets COMPLETED, never before it and
\* never by a later write; a FAILED, IN_PROGRESS or PENDING review carries no
\* reports, whatever the run had produced before it failed.
C6_ReportsOnlyOnCompletion ==
    /\ [](\A r \in ReviewIds : compliance_reports[r] # <<>> => status[r] = COMPLETED)
    /\ [][ \A r \in ReviewIds :
               compliance_reports'[r] # compliance_reports[r] =>
                   (status[r] # COMPLETED /\ status'[r] = COMPLETED) ]_vars

\* C6 witness: a FAILED review whose run had produced reports and carries none
C6_Witness ==
    \E r \in ReviewIds :
        /\ status[r] = FAILED
        /\ reports[r] # <<>>
        /\ compliance_reports[r] = <<>>

\* C7: no clone, model invocation or catalog read is made while the persisted
\* status is still PENDING.
C7_InProgressBeforeExternalCalls ==
    \A r \in ReviewIds : status[r] = PENDING => extCalls[r] = {}

\* C7 witness: the clone has been made and the status is IN_PROGRESS
C7_Witness ==
    \E r \in ReviewIds : status[r] = IN_PROGRESS /\ "clone" \in extCalls[r]

\* C8: after the run ends, on every exit path, the flattened-codebase file the
\* run wrote no longer exists unless its deletion failed.
C8_ArtifactDeletedOnExit ==
    \A r \in ReviewIds :
        (Finished(r) /\ ~unlinkFailed[r]) =>
            ~ \E p \in ArtifactPaths : fs[p].exists /\ fs[p].writer = r

\* C9: two workers that run concurrently use different flattened-codebase
\* file paths.
C9_ArtifactPathsDistinct ==
    \A r1, r2 \in ReviewIds :
        (/\ r1 # r2
         /\ Running(r1) /\ Running(r2)
         /\ codebase_file[r1] # NoPath /\ codebase_file[r2] # NoPath)
            => codebase_file[r1] # codebase_file[r2]

\* C10: while a worker is between its acquisition and its cleanup, the file
\* it reads in check_compliance is the one it wrote (no other worker has
\* rewritten or removed it), and every report attached to a review was
\* generated from that review's own repository.
C10_WorkersDoNotInterfere ==
    \A r \in ReviewIds :
        /\ pc[r] \in {"classify", "loop", "check"} =>
               fs[codebase_file[r]] = FlatFile(r, repository_url[r], TRUE)
        /\ \A k \in 1..Len(compliance_reports[r]) :
               compliance_reports[r][k].report.codebase = repository_url[r]

\* the indices of standard_sets[r] that produced a report, in report order,
\* increase strictly
ProducedInListOrder(r) ==
    \A j, k \in 1..Len(produced[r]) : j < k => produced[r][j] < produced[r][k]

\* C15: within one review the standard sets are processed one after another
\* in list order (when the set at position idx is being processed, every
\* earlier position has been settled exactly once, as a report or as a skip,
\* and no later position has been touched), and the reports collected and
\* attached are in the relative order of their sets in the list.
C15_SetsInListOrder ==
    \A r \in ReviewIds :
        /\ SkippedIdx(r) \cup Range(produced[r]) = 1..(idx[r] - 1)
        /\ SkippedIdx(r) \cap Range(produced[r]) = {}
        /\ ProducedInListOrder(r)
        /\ ReportsMatchProduced(r, reports[r])
        /\ status[r] = COMPLETED =>
               /\ compliance_reports[r] = reports[r]
               /\ ReportsMatchProduced(r, compliance_reports[r])

\* C15 witness: a COMPLETED review with two reports for two differently named
\* sets, attached in the order of the list
C15_Witness ==
    \E r \in ReviewIds :
        /\ Finished(r) /\ status[r] = COMPLETED
        /\ Len(compliance_reports[r]) = 2
        /\ produced[r] = <<1, 2>>
        /\ compliance_reports[r][1].standard_set_name # compliance_reports[r][2].standard_set_name

---------------------------------------------------------------------------
(* The standards query on its own: a catalog, a standard set id and a set   *)
(* of matched classification ids are chosen, and the query is run once.     *)

\* longest catalog the query is applied to
MaxCatalog == 3

\* what a standard document may hold in the fields the query reads
QueriedSetIds == {"A", "B"}
FieldShapes == { IdList(ids) : ids \in SUBSET ClassificationIds } \cup {NullField, MissingField}

\* catalogs of at most n documents; a document's id is its position
CatalogsUpTo(n) ==
    UNION { { [i \in 1..k |-> [id |-> i,
                               standard_set_id |-> f[i][1],
                               classification_ids |-> f[i][2]]] :
              f \in [1..k -> QueriedSetIds \X FieldShapes] } : k \in 0..n }

\* the pipeline variables while no review exists
InitNoReview ==
    /\ status = [r \in ReviewIds |-> NoReview]
    /\ pc = [r \in ReviewIds |-> "none"]
    /\ repository_url = [r \in ReviewIds |-> NoUrl]
    /\ standard_sets = [r \in ReviewIds |-> <<>>]
    /\ InitCommon

pipelineVars == <<dbVars, fileVars, inputVars, localVars, histVars>>

InitSelect ==
    /\ InitNoReview
    /\ svc = Idle /\ ev = Idle /\ fl = Idle /\ cli = Idle /\ wk = Idle /\ acq = Idle
    /\ \E c \in CatalogsUpTo(MaxCatalog), s \in QueriedSetIds, m \in SUBSET ClassificationIds :
           sel = [pc |-> "query", catalog |-> c, standard_set_id |-> s,
                  matched |-> m, standards |-> <<>>]

\* standards = await db.standards.find(query).to_list(None)
RunQuery ==
    /\ sel.pc = "query"
    /\ sel' = [sel EXCEPT !.pc = "selected",
                          !.standards = FindStandards(sel.catalog, sel.standard_set_id,
                                                      sel.matched)]
    /\ UNCHANGED <<pipelineVars, svc, ev, fl, cli, wk, acq>>

NextSelect == RunQuery

SpecSelect == InitSelect /\ [][NextSelect]_vars

\* positions of the catalog whose document belongs to the set and is tied to
\* a matched classification or to none
ApplicablePositions ==
    { i \in 1..Len(sel.catalog) :
        LET f == sel.catalog[i].classification_ids IN
        /\ sel.catalog[i].standard_set_id = sel.standard_set_id
        /\ \/ f.kind = "list" /\ f.ids \cap sel.matched # {}
           \/ f.kind = "list" /\ f.ids = {}
           \/ f.kind = "missing"
           \/ f.kind = "null" }

\* positions of the catalog whose document belongs to the set and is tied to
\* no classification
UniversalPositions ==
    { i \in 1..Len(sel.catalog) :
        /\ sel.catalog[i].standard_set_id = sel.standard_set_id
        /\ sel.catalog[i].classification_ids \in {IdList({}), NullField, MissingField} }

\* C20: the standards selected for a standard set are exactly the catalog's
\* standards of that set whose classification_ids hold a matched id or are
\* empty, missing or null, each once and in catalog order; with no matched
\* classification they are exactly the universal standards of the set.
C20_SelectionRule ==
    sel.pc = "selected" =>
        /\ { sel.standards[k].id : k \in 1..Len(sel.standards) } = ApplicablePositions
        /\ Len(sel.standards) = Cardinality(ApplicablePositions)
        /\ \A k \in 1..Len(sel.standards) :
               sel.standards[k] = sel.catalog[sel.standards[k].id]
        /\ \A j, k \in 1..Len(sel.standards) :
               j < k => sel.standards[j].id < sel.standards[k].id
        /\ sel.matched = {} =>
               { sel.standards[k].id : k \in 1..Len(sel.standards) } = UniversalPositions

\* C20 witness: a selection that keeps a standard for a matched id and one
\* whose field is missing, in catalog order, and leaves out a standard of the
\* same set tied only to an unmatched classification
C20_Witness ==
    /\ sel.pc = "selected"
    /\ Len(sel.catalog) = 3
    /\ Len(sel.standards) = 2
    /\ sel.catalog[1].classification_ids = IdList({"py"})
    /\ sel.catalog[2].classification_ids = IdList({"js"})
    /\ sel.catalog[3].classification_ids = MissingField
    /\ sel.matched = {"py"}
    /\ \A i \in 1..3 : sel.catalog[i].standard_set_id = sel.standard_set_id

---------------------------------------------------------------------------
(* flatten_repository on its own: a cloned tree is chosen and walked once.  *)
(* A directory path is the sequence of its directory names below the        *)
(* repository root; a file name is a sequence of pieces so that a suffix    *)
(* test is computed on it; file bytes are a sequence of pieces of text and  *)
(* line ends.                                                               *)

\* most files a walked tree holds
MaxFiles == 3

\* Files to exclude when flattening (each entry is one piece)
EXCLUDED_FILES ==
    { <<".png">>, <<".jpg">>, <<".jpeg">>, <<".gif">>, <<".pdf">>, <<".zip">>,
      <<"package-lock.json">>, <<"yarn.lock">>, <<"pnpm-lock.yaml">>,
      <<"poetry.lock">>, <<"Pipfile.lock">>, <<"composer.lock">>,
      <<"Gemfile.lock">>, <<"cargo.lock">>, <<"packages.lock.json">> }

\* Directories to exclude
EXCLUDED_DIRS == {".git", "node_modules", "__pycache__", ".venv", "venv"}

\* the entries of the denylist that are binary-file extensions, and those
\* that are lock-file names
BinaryExtensions == { e \in EXCLUDED_FILES : e[1] \in {".png", ".jpg", ".jpeg", ".gif", ".pdf", ".zip"} }
LockFileNames == EXCLUDED_FILES \ BinaryExtensions

\* str.endswith
EndsWith(name, suffix) ==
    /\ Len(suffix) <= Len(name)
    /\ SubSeq(name, Len(name) - Len(suffix) + 1, Len(name)) = suffix

\* "any(file.endswith(ext) for ext in EXCLUDED_FILES)
\*  or any(file == excluded for excluded in EXCLUDED_FILES)"
IsExcludedFile(name) ==
    \/ \E ext \in EXCLUDED_FILES : EndsWith(name, ext)
    \/ \E excluded \in EXCLUDED_FILES : name = excluded

\* "dirs[:] = [d for d in dirs if d not in EXCLUDED_DIRS]"
KeepAllDirs(dirs) == dirs
PrunedDirs(dirs) == { d \in dirs : d \notin EXCLUDED_DIRS }

\* source_file.read() of a file opened in text mode with the default newline
\* handling: every "\r\n" is returned as "\n"
RECURSIVE ReadText(_)
ReadText(bytes) ==
    IF bytes = <<>> THEN <<>>
    ELSE <<(IF Head(bytes) = "CRLF" THEN "LF" ELSE Head(bytes))>> \o ReadText(Tail(bytes))

\* what a file of the tree can be: text, bytes that are not UTF-8
\* ("undecodable"), a file whose open() fails ("unreadable"), and a text file
\* whose name is not encodable as UTF-8 ("bad_name")
File(dir, name, kind, bytes) == [dir |-> dir, name |-> name, kind |-> kind, bytes |-> bytes]

\* the files a cloned tree is drawn from
CandidateFiles ==
    { File(<<>>, <<"a", ".py">>, "text", <<"a", "LF">>),
      File(<<>>, <<"logo", ".png">>, "undecodable", <<"png">>),
      File(<<>>, <<"yarn.lock">>, "text", <<"lock", "LF">>),
      File(<<>>, <<"my-", "yarn.lock">>, "text", <<"mine", "LF">>),
      File(<<>>, <<"data", ".bin">>, "undecodable", <<"bin">>),
      File(<<>>, <<"secret", ".txt">>, "unreadable", <<"s">>),
      File(<<>>, <<"caf", "\\udce9", ".txt">>, "bad_name", <<"c">>),
      File(<<".git">>, <<"config">>, "text", <<"git", "LF">>),
      File(<<"src">>, <<"b", ".py">>, "text", <<"b", "CRLF">>),
      File(<<"src", "node_modules">>, <<"index", ".js">>, "text", <<"i">>),
      File(<<"src", "node_modules", "pkg">>, <<"c", ".js">>, "text", <<"c">>),
      File(<<"venvs">>, <<"d", ".py">>, "text", <<"d", "LF">>) }

\* trees of at most n files
TreesUpTo(n) == { t \in SUBSET CandidateFiles : Cardinality(t) <= n }

IsPrefix(p, q) == Len(p) <= Len(q) /\ SubSeq(q, 1, Len(p)) = p

\* os.walk: the directory names and the files directly in directory d
SubDirs(tree, d) ==
    { f.dir[Len(d) + 1] : f \in { g \in tree : IsPrefix(d, g.dir) /\ Len(g.dir) > Len(d) } }
FilesIn(tree, d) == { f \in tree : f.dir = d }

\* the orders in which a listing may return a set of names
Orderings(S) == { q \in [1..Cardinality(S) -> S] : Range(q) = S }

\* pieces written to the output file
Marker(f) == [kind |-> "marker", dir |-> f.dir, name |-> f.name, text |-> <<>>]
Content(f) == [kind |-> "content", dir |-> f.dir, name |-> f.name, text |-> ReadText(f.bytes)]
Newline(f) == [kind |-> "newline", dir |-> f.dir, name |-> f.name, text |-> <<"LF">>]


InitFlatten ==
    /\ InitNoReview
    /\ svc = Idle /\ ev = Idle /\ sel = Idle /\ cli = Idle /\ wk = Idle /\ acq = Idle
    /\ \E t \in TreesUpTo(MaxFiles) :
           fl = [pc |-> "open", tree |-> t, stack |-> <<>>, files |-> {},
                 out |-> <<>>, created |-> FALSE, opened |-> {}, walked |-> {},
                 warned |-> {}]

\* with open(output_file, 'w', encoding='utf-8') as f
OpenOutput ==
    /\ fl.pc = "open"
    /\ \E ok \in BOOLEAN :
           IF ok
           THEN fl' = [fl EXCEPT !.pc = "walk", !.created = TRUE, !.stack = << <<>> >>]
           ELSE fl' = [fl EXCEPT !.pc = "raised"]
    /\ UNCHANGED <<pipelineVars, svc, ev, sel, cli, wk, acq>>

\* for root, dirs, files in os.walk(repo_path): the next directory in
\* top-down order; its sub-directories are filtered before the walk descends
WalkDir ==
    /\ fl.pc = "walk"
    /\ fl.files = {}
    /\ fl.stack # <<>>
    /\ LET root == Head(fl.stack) IN
       \E q \in Orderings(PrunedDirs(SubDirs(fl.tree, root))) :
           fl' = [fl EXCEPT !.stack = [i \in 1..Len(q) |-> Append(root, q[i])]
                                        \o Tail(fl.stack),
                            !.files = FilesIn(fl.tree, root),
                            !.walked = @ \cup {root}]
    /\ UNCHANGED <<pipelineVars, svc, ev, sel, cli, wk, acq>>

\* "Skipping excluded file": continue
SkipExcludedFile ==
    /\ fl.pc = "walk"
    /\ \E f \in fl.files :
           /\ IsExcludedFile(f.name)
           /\ fl' = [fl EXCEPT !.files = @ \ {f}]
    /\ UNCHANGED <<pipelineVars, svc, ev, sel, cli, wk, acq>>

\* the try block runs to its end: path marker, content, newline
CopyFile ==
    /\ fl.pc = "walk"
    /\ \E f \in fl.files :
           /\ ~IsExcludedFile(f.name)
           /\ f.kind = "text"
           /\ fl' = [fl EXCEPT !.files = @ \ {f},
                               !.opened = @ \cup {f},
                               !.out = @ \o <<Marker(f), Content(f), Newline(f)>>]
    /\ UNCHANGED <<pipelineVars, svc, ev, sel, cli, wk, acq>>

\* source_file.read() raises UnicodeDecodeError after the path marker has
\* been written; the except clause logs a warning
SkipUndecodableFile ==
    /\ fl.pc = "walk"
    /\ \E f \in fl.files :
           /\ ~IsExcludedFile(f.name)
           /\ f.kind = "undecodable"
           /\ fl' = [fl EXCEPT !.files = @ \ {f},
                               !.opened = @ \cup {f},
                               !.out = Append(@, Marker(f)),
                               !.warned = @ \cup {f}]
    /\ UNCHANGED <<pipelineVars, svc, ev, sel, cli, wk, acq>>

\* open(file_path, 'r') raises IOError; the except clause logs a warning
SkipUnreadableFile ==
    /\ fl.pc = "walk"
    /\ \E f \in fl.files :
           /\ ~IsExcludedFile(f.name)
           /\ f.kind = "unreadable"
           /\ fl' = [fl EXCEPT !.files = @ \ {f}, !.warned = @ \cup {f}]
    /\ UNCHANGED <<pipelineVars, svc, ev, sel, cli, wk, acq>>

\* f.write of the path marker raises UnicodeEncodeError for a name that is
\* not encodable; the except clause does not name it, the with block closes
\* the output and the error leaves flatten_repository
RaiseOnFileName ==
    /\ fl.pc = "walk"
    /\ \E f \in fl.files :
           /\ ~IsExcludedFile(f.name)
           /\ f.kind = "bad_name"
           /\ fl' = [fl EXCEPT !.pc = "raised", !.opened = @ \cup {f}]
    /\ UNCHANGED <<pipelineVars, svc, ev, sel, cli, wk, acq>>

\* the walk is exhausted: the with block closes the output file
CloseOutput ==
    /\ fl.pc = "walk"
    /\ fl.files = {}
    /\ fl.stack = <<>>
    /\ fl' = [fl EXCEPT !.pc = "returned"]
    /\ UNCHANGED <<pipelineVars, svc, ev, sel, cli, wk, acq>>

NextFlatten ==
    \/ OpenOutput
    \/ WalkDir
    \/ SkipExcludedFile
    \/ CopyFile
    \/ SkipUndecodableFile
    \/ SkipUnreadableFile
    \/ RaiseOnFileName
    \/ CloseOutput

SpecFlatten == InitFlatten /\ [][NextFlatten]_vars


\* the file lies below a directory named in EXCLUDED_DIRS, at any depth
UnderExcludedDir(f) == \E i \in 1..Len(f.dir) : f.dir[i] \in EXCLUDED_DIRS

\* the name ends in a denylisted binary extension
HasBinaryExtension(f) == \E ext \in BinaryExtensions : EndsWith(f.name, ext)

\* the name is one of the denylisted lock-file names
IsLockFile(f) == f.name \in LockFileNames

\* positions of the output that were written for file f
OutputOf(f) == { i \in 1..Len(fl.out) : fl.out[i].dir = f.dir /\ fl.out[i].name = f.name }

\* C16: the flattened output holds neither a path marker nor content of a
\* file below .git, node_modules, __pycache__, .venv or venv at any depth, nor
\* of a file with a denylisted extension or file name; excluded directories
\* are pruned before the walk descends, so the walk enters none of them and
\* opens no file beneath one.
C16_ExcludedNeverInArtifact ==
    /\ \A f \in fl.tree :
           (UnderExcludedDir(f) \/ HasBinaryExtension(f) \/ IsLockFile(f)) =>
               /\ OutputOf(f) = {}
               /\ f \notin fl.opened
    /\ \A d \in fl.walked : \A i \in 1..Len(d) : d[i] \notin EXCLUDED_DIRS

\* C16 witness: a finished walk of a tree that holds a file two levels below
\* node_modules and a lock file, has entered src and has written the one
\* remaining file
C16_Witness ==
    /\ fl.pc = "returned"
    /\ \E f \in fl.tree : Len(f.dir) = 3 /\ UnderExcludedDir(f)
    /\ \E f \in fl.tree : IsLockFile(f)
    /\ <<"src">> \in fl.walked
    /\ Len(fl.out) = 3

\* C17: after flatten_repository has returned, every text file that is not
\* below an excluded directory, whose name does not end in a denylisted
\* binary extension and is not equal to a denylisted lock-file name, appears
\* exactly once, as its relative-path marker followed by its content
\* unchanged.
C17_EveryTextFileOnce ==
    fl.pc = "returned" =>
        \A f \in fl.tree :
            (/\ f.kind = "text"
             /\ ~UnderExcludedDir(f)
             /\ ~HasBinaryExtension(f)
             /\ ~IsLockFile(f))
            => \E i \in 1..(Len(fl.out) - 1) :
                   /\ fl.out[i] = Marker(f)
                   /\ fl.out[i + 1].kind = "content"
                   /\ fl.out[i + 1].text = f.bytes
                   /\ \A j \in OutputOf(f) : fl.out[j].kind = "marker" => j = i

\* C18: a file that is skipped with a warning, because it does not decode as
\* UTF-8 or cannot be read, leaves nothing in the output, neither its path
\* marker nor content, and the walk goes on: flatten_repository raises only
\* for another cause (the output cannot be created, or a file name cannot be
\* written).
C18_SkippedFileAddsNothing ==
    /\ \A f \in fl.warned : OutputOf(f) = {}
    /\ fl.pc = "raised" =>
           \/ ~fl.created
           \/ \E g \in fl.opened : g.kind = "bad_name"

---------------------------------------------------------------------------
(* check_compliance on its own: the standards of one standard set, the      *)
(* environment and the matched classifications are chosen, and the function *)
(* is called, and called once more on the same inputs after it returned.    *)
(* A string that is split, stripped or searched is a sequence of pieces.    *)

\* longest list of standards passed to check_compliance
MaxStandards == 2

\* most times the clock is moved on by something other than the rate-limit
\* sleep
MaxTicks == 1

\* await asyncio.sleep(10)  # Rate limiting
SleepSeconds == 10

\* an environment variable: not set, or set to a value
Unset == [set |-> FALSE, value |-> <<>>]
SetTo(v) == [set |-> TRUE, value |-> v]

\* os.getenv(name, default)
Getenv(var, default) == IF var.set THEN var.value ELSE default

\* str.lower on the values LLM_TESTING takes here
Lower(s) == [i \in 1..Len(s) |-> IF s[i] \in {"True", "TRUE"} THEN "true" ELSE s[i]]

\* str.split(","): the pieces between the separators; the empty string
\* splits into one empty piece
RECURSIVE Split(_, _)
Split(s, sep) ==
    IF \A i \in 1..Len(s) : s[i] # sep
    THEN <<s>>
    ELSE LET k == CHOOSE i \in 1..Len(s) : s[i] = sep /\ \A j \in 1..(i - 1) : s[j] # sep
         IN <<SubSeq(s, 1, k - 1)>> \o Split(SubSeq(s, k + 1, Len(s)), sep)

\* str.strip(): leading and trailing blanks removed
RECURSIVE Strip(_)
Strip(s) ==
    IF s = <<>> THEN s
    ELSE IF Head(s) = " " THEN Strip(Tail(s))
    ELSE IF s[Len(s)] = " " THEN Strip(SubSeq(s, 1, Len(s) - 1))
    ELSE s

\* "sub in text" for strings
Contains(text, sub) ==
    \E i \in 0..(Len(text) - Len(sub)) : SubSeq(text, i + 1, i + Len(sub)) = sub

\* CodeReviewConfig.__init__
CodeReviewConfig(env) ==
    LET llm_testing == Lower(Getenv(env.LLM_TESTING, <<"false">>)) = <<"true">> IN
    [ llm_testing |-> llm_testing,
      testing_files |-> IF llm_testing
                        THEN Split(Getenv(env.LLM_TESTING_STANDARDS_FILES, <<>>), ",")
                        ELSE <<>> ]

\* standard.get('repository_path', '')
RepositoryPathOf(standard) ==
    IF standard.has_path THEN standard.repository_path ELSE <<>>

\* the test of filter_standards on one standard
PassesFilter(standard, config) ==
    \E k \in 1..Len(config.testing_files) :
        Contains(RepositoryPathOf(standard), Strip(config.testing_files[k]))

\* filter_standards
FilterStandards(standards, config) ==
    IF ~config.llm_testing
    THEN standards
    ELSE SelectSeq(standards, LAMBDA standard : PassesFilter(standard, config))


\* the standards a call may be given: two with a repository_path and one
\* without that field
EvalStandards ==
    { [id |-> "s1", has_path |-> TRUE,
       repository_path |-> <<"docs", "/", "sec", ".md">>, text |-> "t1"],
      [id |-> "s2", has_path |-> TRUE,
       repository_path |-> <<"docs", "/", "api", ".md">>, text |-> "t2"],
      [id |-> "s3", has_path |-> FALSE, repository_path |-> <<>>, text |-> "t3"] }

\* lists of at most n different standards
StandardListsUpTo(n) ==
    UNION { { q \in [1..k -> EvalStandards] : \A i, j \in 1..k : i # j => q[i] # q[j] } :
            k \in 0..n }

Env(testing, files) == [LLM_TESTING |-> testing, LLM_TESTING_STANDARDS_FILES |-> files]

\* the environments of the worker process
Environments ==
    { Env(Unset, Unset),
      Env(SetTo(<<"false">>), SetTo(<<"sec">>)),
      Env(SetTo(<<"True">>), SetTo(<<"sec">>)),
      Env(SetTo(<<"true">>), SetTo(<<" ", "sec", ",", " ", "api", " ">>)),
      Env(SetTo(<<"true">>), SetTo(<<"zzz">>)),
      Env(SetTo(<<"true">>), SetTo(<<"sec", ",">>)),
      Env(SetTo(<<"true">>), SetTo(<<>>)),
      Env(SetTo(<<"true">>), Unset) }

\* matching_classification_ids of the call
EvalMatched == { {}, {"py"} }

\* clock readings per second: the clock has a finer resolution than the
\* report's Date line
TicksPerSecond == 2

\* datetime.now().strftime("%d %B %Y %H:%M:%S"): the reading cut to the second
StrftimeExact(t) == t
Strftime(t) == t \div TicksPerSecond

\* the clock after "await asyncio.sleep(10)"
ClockAfterNoSleep(t) == t
ClockAfterSleep(t) == t + SleepSeconds * TicksPerSecond

\* where an exception of create_message leads: process_standards wraps it in
\* ReportGenerationError and check_compliance in CodeReviewError
InvocationErrorSwallowed == "sleep"
InvocationErrorTarget == "raised"

\* get_classification_names: the names of the matched ids, in catalog order
ClassificationNames(matched) ==
    SelectSeq(<<ClassificationName("py"), ClassificationName("js")>>,
              LAMBDA n : \E c \in matched : ClassificationName(c) = n)

\* generate_report_header
ReportHeader(standard_set_name, classification_names, now) ==
    [ title |-> standard_set_name,
      date |-> Strftime(now),
      classifications |-> IF classification_names = <<>> THEN <<"None">>
                          ELSE classification_names ]

\* AnthropicClient.create_message, as far as check_compliance depends on it
\* what a call hands back to its caller
NoResult == [kind |-> "none", value |-> "none"]
ReturnedClient(c) == [kind |-> "client", value |-> c]
ReturnedText(t) == [kind |-> "text", value |-> t]
Raised(type, message) == [kind |-> "raised", value |-> <<type, message>>]

\* a content block of a response, with or without a text attribute
TextBlock(t) == [has_text |-> TRUE, text |-> t]
BlockWithoutText == [has_text |-> FALSE, text |-> "none"]

\* the responses messages.create may return: a content list (empty, one text
\* block, two text blocks, a first block without text) or no content attribute
ResponseOf(blocks) == [has_content |-> TRUE, content |-> blocks]
ResponseWithoutContent == [has_content |-> FALSE, content |-> <<>>]
Responses ==
    { ResponseOf(<<TextBlock("Test response")>>),
      ResponseOf(<<TextBlock("first"), TextBlock("second")>>),
      ResponseOf(<<>>),
      ResponseOf(<<BlockWithoutText, TextBlock("second")>>),
      ResponseWithoutContent }

NoResponse == [has_content |-> FALSE, content |-> <<"none">>]

\* the error messages.create raises when the call fails
ApiError == Raised("Exception", "API Error")

\* try: return response.content[0].text
\* except (IndexError, AttributeError): return ""
ExtractTextUnguarded(response) ==
    IF ~response.has_content THEN Raised("AttributeError", "content")
    ELSE IF response.content = <<>> THEN Raised("IndexError", "list index out of range")
    ELSE IF ~response.content[1].has_text THEN Raised("AttributeError", "text")
    ELSE ReturnedText(response.content[1].text)
ExtractText(response) ==
    IF ~response.has_content THEN ReturnedText("")
    ELSE IF response.content = <<>> THEN ReturnedText("")
    ELSE IF ~response.content[1].has_text THEN ReturnedText("")
    ELSE ReturnedText(response.content[1].text)

\* the answer of the model to the prompt built from one standard and the
\* codebase text: the same prompt gets the same answer
ModelReport(standard, codebase_content) ==
    [standard |-> standard.id, text |-> standard.text, codebase |-> codebase_content]

\* what messages.create returns for the prompt of one standard: a text block,
\* or an empty content list for the standards the model has no text for
ModelResponse(standard, codebase_content, silent) ==
    IF standard.id \in silent THEN ResponseOf(<<>>)
    ELSE ResponseOf(<<TextBlock(ModelReport(standard, codebase_content).text)>>)

\* header + "\n\n".join(reports) + "\n\n## Specific Recommendations\n\n"
CombinedText(header, texts) ==
    [written |-> TRUE, header |-> header, reports |-> texts,
     closing |-> "Specific Recommendations"]

NoText ==
    [written |-> FALSE, header |-> ReportHeader("", <<>>, 0), reports |-> <<>>,
     closing |-> ""]


\* the locals of check_compliance before its first statement
FreshCall(e) ==
    [e EXCEPT !.pc = "names", !.classification_names = <<>>,
              !.filtered_standards = <<>>, !.filter_applied = FALSE,
              !.i = 1, !.reports = <<>>,
              !.sent = <<>>, !.answered = <<>>, !.failed_at = 0,
              !.done = {}, !.failed_step = "none"]

\* the standards whose prompt the model may answer without a text
SilentStandards == {"s1"}

InitEval ==
    /\ InitNoReview
    /\ svc = Idle /\ fl = Idle /\ sel = Idle /\ cli = Idle /\ wk = Idle /\ acq = Idle
    /\ \E l \in StandardListsUpTo(MaxStandards), e \in Environments, m \in EvalMatched,
          q \in SUBSET SilentStandards :
           ev = [pc |-> "names", run |-> 1,
                 standards |-> l, env |-> e, matched |-> m, silent |-> q,
                 standard_set_name |-> "Alpha", codebase_content |-> "code",
                 config |-> CodeReviewConfig(Env(Unset, Unset)),
                 classification_names |-> <<>>, filtered_standards |-> <<>>,
                 filter_applied |-> FALSE,
                 i |-> 1, reports |-> <<>>,
                 clock |-> 0, ticks |-> 0, in_flight |-> 0,
                 sent |-> <<>>, answered |-> <<>>, failed_at |-> 0,
                 done |-> {}, failed_step |-> "none",
                 invoked_at |-> <<>>, ended |-> <<>>,
                 text |-> [r \in 1..2 |-> NoText],
                 rendered_at |-> [r \in 1..2 |-> 0],
                 outcome |-> [r \in 1..2 |-> "none"]]

\* the exception leaves check_compliance as CodeReviewError
RaiseCodeReviewError(e) ==
    [e EXCEPT !.pc = "raised", !.outcome[e.run] = "CodeReviewError"]

\* where an exception of open() or f.read() leads: the with statement is
\* inside the try of check_compliance
ReadErrorIgnored(e) == [e EXCEPT !.pc = "loop"]
ReadErrorTarget(e) == RaiseCodeReviewError(e)

\* classification_names = await get_classification_names(...)
GetClassificationNames ==
    /\ ev.pc = "names"
    /\ \E ok \in BOOLEAN :
           ev' = IF ok
                 THEN [ev EXCEPT !.pc = "filter", !.done = @ \cup {"names"},
                                 !.classification_names = ClassificationNames(ev.matched)]
                 ELSE [RaiseCodeReviewError(ev) EXCEPT !.failed_step = "names"]
    /\ UNCHANGED <<pipelineVars, svc, fl, sel, cli, wk, acq>>

\* config = CodeReviewConfig()
\* filtered_standards = await filter_standards(standards, config)
ApplyFilter ==
    /\ ev.pc = "filter"
    /\ LET config == CodeReviewConfig(ev.env) IN
       ev' = [ev EXCEPT !.pc = "read", !.config = config, !.filter_applied = TRUE,
                        !.filtered_standards = FilterStandards(ev.standards, config)]
    /\ UNCHANGED <<pipelineVars, svc, fl, sel, cli, wk, acq>>

\* with open(codebase_file, 'r', encoding='utf-8') as f: codebase_content = f.read()
ReadCodebase ==
    /\ ev.pc = "read"
    /\ \E ok \in BOOLEAN :
           ev' = IF ok THEN [ev EXCEPT !.pc = "loop", !.done = @ \cup {"read"}]
                 ELSE [ReadErrorTarget(ev) EXCEPT !.failed_step = "read"]
    /\ UNCHANGED <<pipelineVars, svc, fl, sel, cli, wk, acq>>

\* process_standards, loop body: the prompt of the next standard is sent
SendPrompt ==
    /\ ev.pc = "loop"
    /\ ev.i <= Len(ev.filtered_standards)
    /\ ev' = [ev EXCEPT !.pc = "awaiting",
                        !.in_flight = @ + 1,
                        !.sent = Append(@, [id |-> ev.filtered_standards[ev.i].id,
                                            at |-> ev.clock]),
                        !.invoked_at = Append(@, ev.clock)]
    /\ UNCHANGED <<pipelineVars, svc, fl, sel, cli, wk, acq>>

\* create_message returns: reports.append(report_text)
ReceiveReport ==
    /\ ev.pc = "awaiting"
    /\ LET standard == ev.filtered_standards[ev.i]
           res == ExtractText(ModelResponse(standard, ev.codebase_content, ev.silent))
       IN
       ev' = IF res.kind = "raised"
             THEN [RaiseCodeReviewError(ev) EXCEPT
                       !.in_flight = @ - 1, !.failed_at = ev.i, !.failed_step = "extract",
                       !.ended = Append(@, [at |-> ev.clock, ok |-> FALSE])]
             ELSE [ev EXCEPT !.pc = "sleep",
                        !.in_flight = @ - 1,
                        !.answered = Append(@, [id |-> standard.id, at |-> ev.clock]),
                        !.reports = Append(@, [ModelReport(standard, ev.codebase_content)
                                                   EXCEPT !.text = res.value]),
                        !.ended = Append(@, [at |-> ev.clock, ok |-> TRUE])]
    /\ UNCHANGED <<pipelineVars, svc, fl, sel, cli, wk, acq>>

\* create_message raises
InvocationFails ==
    /\ ev.pc = "awaiting"
    /\ ev' = IF InvocationErrorTarget = "raised"
             THEN [RaiseCodeReviewError(ev) EXCEPT
                       !.in_flight = @ - 1, !.failed_at = ev.i, !.failed_step = "invoke",
                       !.ended = Append(@, [at |-> ev.clock, ok |-> FALSE])]
             ELSE [ev EXCEPT !.pc = InvocationErrorTarget, !.in_flight = @ - 1,
                             !.failed_at = ev.i, !.failed_step = "invoke",
                             !.ended = Append(@, [at |-> ev.clock, ok |-> FALSE])]
    /\ UNCHANGED <<pipelineVars, svc, fl, sel, cli, wk, acq>>

\* await asyncio.sleep(10), then the next turn of the loop
RateLimitSleep ==
    /\ ev.pc = "sleep"
    /\ ev' = [ev EXCEPT !.pc = "loop", !.i = @ + 1, !.clock = ClockAfterSleep(@)]
    /\ UNCHANGED <<pipelineVars, svc, fl, sel, cli, wk, acq>>

\* process_standards has returned: header, combined report, report file
WriteReport ==
    /\ ev.pc = "loop"
    /\ ev.i > Len(ev.filtered_standards)
    /\ \E ok \in BOOLEAN :
           ev' = IF ok
                 THEN [ev EXCEPT !.pc = "returned",
                                 !.outcome[ev.run] = "returned",
                                 !.rendered_at[ev.run] = ev.clock,
                                 !.text[ev.run] =
                                     CombinedText(ReportHeader(ev.standard_set_name,
                                                               ev.classification_names,
                                                               ev.clock),
                                                  ev.reports)]
                 ELSE [RaiseCodeReviewError(ev) EXCEPT !.failed_step = "write"]
    /\ UNCHANGED <<pipelineVars, svc, fl, sel, cli, wk, acq>>

\* check_compliance is called a second time with the same arguments
CallAgain ==
    /\ ev.pc = "returned"
    /\ ev.run = 1
    /\ ev' = [FreshCall(ev) EXCEPT !.run = 2]
    /\ UNCHANGED <<pipelineVars, svc, fl, sel, cli, wk, acq>>

\* process_code_review, "except Exception as e: ... continue": the loop goes
\* on to the next standard set and calls check_compliance for it
CallForNextSet ==
    /\ ev.pc = "raised"
    /\ ev.run = 1
    /\ ev' = [FreshCall(ev) EXCEPT !.run = 2]
    /\ UNCHANGED <<pipelineVars, svc, fl, sel, cli, wk, acq>>

\* time passes for a reason other than the rate-limit sleep
TimePasses ==
    /\ ev.pc \notin {"idle", "raised"}
    /\ ev.ticks < MaxTicks
    /\ ev' = [ev EXCEPT !.clock = @ + 1, !.ticks = @ + 1]
    /\ UNCHANGED <<pipelineVars, svc, fl, sel, cli, wk, acq>>

NextEval ==
    \/ GetClassificationNames
    \/ ApplyFilter
    \/ ReadCodebase
    \/ SendPrompt
    \/ ReceiveReport
    \/ InvocationFails
    \/ RateLimitSleep
    \/ WriteReport
    \/ CallAgain
    \/ CallForNextSet
    \/ TimePasses

SpecEval == InitEval /\ [][NextEval]_vars


\* process_standards has gone through its whole list
ProcessStandardsReturned ==
    \/ ev.pc = "returned"
    \/ ev.pc = "loop" /\ ev.i > Len(ev.filtered_standards)

\* C12: process_standards invokes the model once per standard of the list it
\* receives, in list order (the invocations made so far are the first
\* standards of the list, and all of them once the function has returned),
\* never with two invocations in flight, and at least the rate-limit delay
\* lies between the answer to one invocation and the next invocation.
C12_SequentialRateLimited ==
    /\ ev.in_flight \in {0, 1}
    /\ Len(ev.sent) <= Len(ev.filtered_standards)
    /\ \A k \in 1..Len(ev.sent) : ev.sent[k].id = ev.filtered_standards[k].id
    /\ ProcessStandardsReturned => Len(ev.sent) = Len(ev.filtered_standards)
    /\ Len(ev.answered) \in {Len(ev.sent) - 1, Len(ev.sent)}
    /\ \A k \in 1..(Len(ev.sent) - 1) :
           ev.sent[k + 1].at >= ev.answered[k].at + SleepSeconds * TicksPerSecond

\* C12 witness: a call that has returned after two invocations for two
\* different standards
C12_Witness ==
    /\ ev.pc = "returned"
    /\ Len(ev.sent) = 2
    /\ ev.sent[1].id # ev.sent[2].id
    /\ Len(ev.text[ev.run].reports) = 2

\* C13: when the invocation for the k-th standard fails, the call makes no
\* further invocation (k invocations in all: no retry, nothing after k), has
\* written no report text, and has left check_compliance as CodeReviewError.
C13_FailureAbortsSet ==
    ev.failed_at > 0 =>
        /\ Len(ev.sent) = ev.failed_at
        /\ ev.in_flight = 0
        /\ ev.pc = "raised"
        /\ ev.outcome[ev.run] = "CodeReviewError"
        /\ ~ev.text[ev.run].written

\* C13 witness: the invocation for the first of two standards has failed and
\* the call has ended without sending the second
C13_Witness ==
    /\ ev.failed_at = 1
    /\ Len(ev.filtered_standards) = 2
    /\ ev.pc = "raised"

\* the allow-list the environment configures: the entries of
\* LLM_TESTING_STANDARDS_FILES between commas, none when the variable is
\* unset or empty
ConfiguredAllowList ==
    LET value == Getenv(ev.env.LLM_TESTING_STANDARDS_FILES, <<>>)
        pieces == Split(value, ",")
    IN { Strip(pieces[k]) : k \in 1..Len(pieces) } \ {<<>>}

\* C14: with test mode disabled filter_standards returns its input unchanged;
\* with test mode enabled it returns, for every configured allow-list, an
\* empty or unset one included, exactly the standards whose repository_path
\* contains an entry of the allow-list, in their original order; a dropped
\* standard is never sent to the model and is absent from the report.
C14_FilterRule ==
    (ev.pc # "idle" /\ ev.filter_applied) =>
        /\ ~ev.config.llm_testing => ev.filtered_standards = ev.standards
        /\ ev.config.llm_testing =>
               ev.filtered_standards =
                   SelectSeq(ev.standards,
                             LAMBDA s : \E entry \in ConfiguredAllowList :
                                            Contains(RepositoryPathOf(s), entry))
        /\ \A k \in 1..Len(ev.sent) :
               \E j \in 1..Len(ev.filtered_standards) :
                   ev.filtered_standards[j].id = ev.sent[k].id
        /\ \A k \in 1..Len(ev.text[ev.run].reports) :
               \E j \in 1..Len(ev.filtered_standards) :
                   ev.filtered_standards[j].id = ev.text[ev.run].reports[k].standard

\* the report text without the Date line of its header
WithoutDate(text) == [text EXCEPT !.header.date = 0]

\* both calls have returned
BothReturned == ev.run = 2 /\ ev.pc = "returned" /\ ev.outcome[1] = "returned"

\* C19 as stated: two calls on the same inputs give the same report text.
C19_RerunByteIdentical ==
    BothReturned => ev.text[1] = ev.text[2]

\* C19 amended: two calls on the same inputs give report texts that are the
\* same apart from the Date line of the header, and are the same throughout
\* exactly when both were rendered within the same second.
C19_RerunIdenticalUpToDate ==
    BothReturned =>
        /\ WithoutDate(ev.text[1]) = WithoutDate(ev.text[2])
        /\ (ev.text[1] = ev.text[2]) <=>
               (ev.rendered_at[1] \div TicksPerSecond
                    = ev.rendered_at[2] \div TicksPerSecond)

\* C19 witness: both calls returned a report on one standard or more, and the
\* second text differs from the first
C19_Witness ==
    /\ BothReturned
    /\ Len(ev.text[1].reports) >= 1
    /\ ev.text[1].reports = ev.text[2].reports
    /\ ev.text[1] # ev.text[2]

---------------------------------------------------------------------------
(* CodeReviewService.create_review: one request is served by the request-   *)
(* serving process while the worker it starts runs process_code_review in   *)
(* its own process.                                                         *)

\* the review the request creates
NewReviewId == "r1"

\* the CodeReview object held by the service: a copy of the document as
\* repo.create wrote it
NoReviewObject == [status |-> NoReview, compliance_reports |-> <<>>]
CreatedReviewObject == [status |-> PENDING, compliance_reports |-> <<>>]

\* what "return created_review" waits for: nothing
ReturnWaitsForWorker == pc[NewReviewId] = "done"
ReturnGuard == TRUE

InitService ==
    /\ InitNoReview
    /\ ev = Idle /\ fl = Idle /\ sel = Idle /\ cli = Idle /\ wk = Idle /\ acq = Idle
    /\ \E u \in RepositoryUrls, l \in ListsUpTo(MaxSets) :
           svc = [pc |-> "validate", i |-> 1,
                  request |-> [repository_url |-> u, standard_sets |-> l],
                  created_review |-> NoReviewObject,
                  returned |-> NoReviewObject,
                  workers_started |-> 0,
                  error |-> "none"]

\* raise ValueError(...): the call ends before repo.create
SkipInvalidStandardSet(s) == [s EXCEPT !.i = @ + 1]
RaiseValueError(s) == [s EXCEPT !.pc = "raised", !.error = "ValueError"]

\* one turn of "for standard_set_id in code_review.standard_sets"
ValidateStandardSet ==
    /\ svc.pc = "validate"
    /\ svc.i <= Len(svc.request.standard_sets)
    /\ LET sid == svc.request.standard_sets[svc.i] IN
       IF ~ValidObjectIdFormat(sid)
       THEN svc' = RaiseValueError(svc)
       ELSE \E db_ok \in BOOLEAN :
                svc' = IF ~db_ok
                       THEN [svc EXCEPT !.pc = "raised", !.error = "db_error"]
                       ELSE IF ~FindStandardSet(sid)
                       THEN RaiseValueError(svc)
                       ELSE [svc EXCEPT !.i = @ + 1]
    /\ UNCHANGED <<pipelineVars, ev, fl, sel, cli, wk, acq>>

\* created_review = await self.repo.create(code_review)
CreateReview ==
    /\ svc.pc = "validate"
    /\ svc.i > Len(svc.request.standard_sets)
    /\ \E ok \in BOOLEAN :
           IF ok
           THEN /\ status' = [status EXCEPT ![NewReviewId] = PENDING]
                /\ repository_url' = [repository_url EXCEPT ![NewReviewId] =
                                          svc.request.repository_url]
                /\ standard_sets' = [standard_sets EXCEPT ![NewReviewId] =
                                         svc.request.standard_sets]
                /\ svc' = [svc EXCEPT !.pc = "start", !.created_review = CreatedReviewObject]
           ELSE /\ svc' = [svc EXCEPT !.pc = "raised", !.error = "db_error"]
                /\ UNCHANGED <<status, inputVars>>
    /\ UNCHANGED <<compliance_reports, fileVars, localVars, histVars, ev, fl, sel, cli, wk, acq>>

\* Process(target=_run_in_process, args=(...)).start()
StartWorker ==
    /\ svc.pc = "start"
    /\ \E ok \in BOOLEAN :
           IF ok
           THEN /\ pc' = [pc EXCEPT ![NewReviewId] = "spawned"]
                /\ svc' = [svc EXCEPT !.pc = "started", !.workers_started = @ + 1]
           ELSE /\ svc' = [svc EXCEPT !.pc = "raised", !.error = "OSError"]
                /\ UNCHANGED pc
    /\ UNCHANGED <<dbVars, fileVars, inputVars, codebase_file, matching, idx, reports,
                   outcome, histVars, ev, fl, sel, cli, wk, acq>>

\* return created_review
ReturnReview ==
    /\ svc.pc = "started"
    /\ ReturnGuard
    /\ svc' = [svc EXCEPT !.pc = "returned", !.returned = svc.created_review]
    /\ UNCHANGED <<pipelineVars, ev, fl, sel, cli, wk, acq>>

\* in the worker process: run_async_in_process, run_with_new_connection and
\* setup_process_database, up to the call of process_code_review
WorkerSetup ==
    /\ pc[NewReviewId] = "spawned"
    /\ \E ok \in BOOLEAN :
           IF ok
           THEN /\ pc' = [pc EXCEPT ![NewReviewId] = EntryPoint]
                /\ UNCHANGED outcome
           ELSE /\ pc' = [pc EXCEPT ![NewReviewId] = "done"]
                /\ outcome' = [outcome EXCEPT ![NewReviewId] = "setup_failed"]
    /\ UNCHANGED <<dbVars, fileVars, inputVars, codebase_file, matching, idx, reports,
                   histVars, auxVars>>

\* in the worker process: one step of process_code_review
WorkerStep ==
    \/ MarkInProgress(NewReviewId)
    \/ ProcessRepositories(NewReviewId)
    \/ Classify(NewReviewId)
    \/ SelectStandards(NewReviewId)
    \/ CheckCompliance(NewReviewId)
    \/ MarkCompleted(NewReviewId)
    \/ HandleException(NewReviewId)
    \/ Cleanup(NewReviewId)

NextService ==
    \/ ValidateStandardSet
    \/ CreateReview
    \/ StartWorker
    \/ ReturnReview
    \/ WorkerSetup
    \/ WorkerStep

SpecService == InitService /\ [][NextService]_vars

\* C11: create_review persists the review before it starts the worker, starts
\* one worker and no more, and returns the PENDING review it created, without
\* reports: once the worker is started the return is enabled whatever the
\* worker has or has not done, and what is returned does not change with the
\* worker's progress, which shows only in the persisted status.
C11_CreateReturnsWithoutWaiting ==
    /\ svc.workers_started \in {0, 1}
    /\ svc.workers_started = 1 => status[NewReviewId] # NoReview
    /\ pc[NewReviewId] # "none" => svc.workers_started = 1
    /\ svc.pc = "started" => ENABLED ReturnReview
    /\ svc.pc = "returned" =>
           /\ svc.workers_started = 1
           /\ status[NewReviewId] # NoReview
           /\ svc.returned = CreatedReviewObject

\* C11 witness: create_review has returned the PENDING review while its
\* worker has already written IN_PROGRESS and is still running
C11_Witness ==
    /\ svc.pc = "returned"
    /\ svc.returned.status = PENDING
    /\ status[NewReviewId] = IN_PROGRESS
    /\ pc[NewReviewId] \notin {"spawned", "done"}

---------------------------------------------------------------------------
(* Further properties of the pipeline and of its parts *)

\* C21: every report attached at completion was produced for a position of
\* the requested list whose id is well formed, whose standard-set record
\* exists, whose selection held a standard and whose check_compliance call
\* succeeded; no position of the list has two reports, and a position with an
\* empty selection has none.
C21_ReportsOnlyForEvaluatedSets ==
    \A r \in ReviewIds :
        status[r] = COMPLETED =>
            /\ ReportsMatchProduced(r, compliance_reports[r])
            /\ Range(produced[r]) \subseteq MatchingIdx(r)
            /\ Range(produced[r]) \cap SkippedIdx(r) = {}
            /\ Cardinality(Range(produced[r])) = Len(compliance_reports[r])
            /\ \A i \in 1..Len(standard_sets[r]) :
                   QueryStandards(standard_sets[r][i], matching[r]) = <<>> =>
                       i \notin Range(produced[r])

\* C21 witness: a COMPLETED review of two well-formed, existing sets, the
\* first with an empty selection, carrying the one report of the second
C21_Witness ==
    \E r \in ReviewIds :
        /\ status[r] = COMPLETED
        /\ Len(standard_sets[r]) = 2
        /\ FindStandardSet(standard_sets[r][1])
        /\ QueryStandards(standard_sets[r][1], matching[r]) = <<>>
        /\ produced[r] = <<2>>
        /\ Len(compliance_reports[r]) = 1


\* C23: a run of process_code_review that has ended, by returning or by
\* raising, has left the persisted status COMPLETED or FAILED, never
\* IN_PROGRESS.
C23_RunEndsInTerminalStatus ==
    \A r \in ReviewIds :
        Finished(r) => status[r] \in {COMPLETED, FAILED}


\* the read-only catalogs
CatalogCollections == {"classifications", "standard_sets", "standards"}

\* C30: a run of process_code_review only reads the classifications,
\* standard_sets and standards catalogs; the only operation it issues on the
\* reviews collection is the status update of its own review id; and the
\* document of a review changes only in a step of that review's own run.
C30_WritesOnlyOwnReview ==
    /\ [](\A r \in ReviewIds : \A op \in dbOps[r] :
              /\ op[1] \in CatalogCollections \cup {"code_reviews"}
              /\ op[1] \in CatalogCollections => op[2] \in {"find", "find_one"}
              /\ op[1] = "code_reviews" => (op[2] = "update_status" /\ op[3] = r))
    /\ [][ \A q \in ReviewIds :
               (status'[q] # status[q] \/ compliance_reports'[q] # compliance_reports[q])
                   => pc'[q] # pc[q] ]_vars

\* C30 witness: two runs side by side, one ended COMPLETED with a report and
\* the other FAILED, after reads of all three catalogs
C30_Witness ==
    /\ status["r1"] = COMPLETED /\ compliance_reports["r1"] # <<>>
    /\ status["r2"] = FAILED
    /\ { op[1] : op \in dbOps["r1"] } = CatalogCollections \cup {"code_reviews"}

---------------------------------------------------------------------------
(* Worker death: a review whose worker is already running, a request that   *)
(* creates a second review and starts its worker, and the death of either   *)
(* worker process at any point of its run.                                  *)

\* the review that exists before the request is served
RunningReviewId == "r2"

InitCrash ==
    /\ status = [r \in ReviewIds |-> IF r = RunningReviewId THEN PENDING ELSE NoReview]
    /\ pc = [r \in ReviewIds |-> IF r = RunningReviewId THEN EntryPoint ELSE "none"]
    /\ repository_url = [r \in ReviewIds |->
                             IF r = RunningReviewId THEN ConcurrentUrl ELSE NoUrl]
    /\ standard_sets = [r \in ReviewIds |-> IF r = RunningReviewId THEN <<"A">> ELSE <<>>]
    /\ InitCommon
    /\ ev = Idle /\ fl = Idle /\ sel = Idle /\ cli = Idle /\ wk = Idle /\ acq = Idle
    /\ \E u \in RepositoryUrls, l \in ConcurrentLists :
           svc = [pc |-> "validate", i |-> 1,
                  request |-> [repository_url |-> u, standard_sets |-> l],
                  created_review |-> NoReviewObject,
                  returned |-> NoReviewObject,
                  workers_started |-> 0,
                  error |-> "none"]

\* the worker process of review r dies: nothing it holds is written or
\* cleaned up
Crash(r) ==
    /\ pc[r] \notin {"none", "done", "dead"}
    /\ pc' = [pc EXCEPT ![r] = "dead"]
    /\ UNCHANGED <<dbVars, fileVars, inputVars, codebase_file, matching, idx, reports,
                   outcome, histVars, auxVars>>

NextCrash ==
    \/ ValidateStandardSet
    \/ CreateReview
    \/ StartWorker
    \/ ReturnReview
    \/ WorkerSetup
    \/ Next
    \/ \E r \in ReviewIds : Crash(r)

SpecCrash == InitCrash /\ [][NextCrash]_vars

\* C22: once a worker has died with the status of its review at IN_PROGRESS,
\* no step of the service or of another worker changes that review's status
\* or reports, and no worker runs for it again.
C22_StuckInProgressAfterCrash ==
    [][ \A r \in ReviewIds :
            (pc[r] = "dead" /\ status[r] = IN_PROGRESS) =>
                /\ status'[r] = IN_PROGRESS
                /\ compliance_reports'[r] = compliance_reports[r]
                /\ pc'[r] = "dead" ]_vars

\* C22 witness: the worker of the first review is dead with the status at
\* IN_PROGRESS while the request for the second review has returned and that
\* review's run has ended COMPLETED
C22_Witness ==
    /\ pc[RunningReviewId] = "dead"
    /\ status[RunningReviewId] = IN_PROGRESS
    /\ svc.pc = "returned"
    /\ status[NewReviewId] = COMPLETED
    /\ pc[NewReviewId] = "done"


\* C28: in check_compliance no prompt is sent to the model before the
\* classification names are resolved and the codebase file is read, and a call
\* whose lookup or read fails ends in CodeReviewError having sent no prompt
\* and written no report file.
C28_LookupAndReadBeforeModel ==
    /\ (ev.pc # "idle" /\ ev.sent # <<>>) => {"names", "read"} \subseteq ev.done
    /\ (ev.pc # "idle" /\ ev.failed_step \in {"names", "read"}) =>
           /\ ev.pc = "raised"
           /\ ev.outcome[ev.run] = "CodeReviewError"
           /\ ev.sent = <<>>
           /\ ev.in_flight = 0
           /\ ~ev.text[ev.run].written

\* C28 witness: the names were resolved, the read of the codebase file failed,
\* and the call had standards to evaluate
C28_Witness ==
    /\ ev.pc = "raised"
    /\ ev.run = 1
    /\ ev.failed_step = "read"
    /\ "names" \in ev.done
    /\ Len(ev.filtered_standards) = 2
    /\ ev.sent = <<>>


---------------------------------------------------------------------------
(* AnthropicClient: the settings are read once, the client objects are      *)
(* class-level singletons, and get_client and create_message are called     *)
(* one after the other.                                                     *)

\* calls of get_client or create_message in one behaviour
MaxInvocations == 2

NoInstance == "None"

AwsCredentialSettings == {"AWS_ACCESS_KEY", "AWS_SECRET_KEY", "AWS_REGION"}

\* except Exception as e: logger.error(...); raise
ReraiseWrapped(e) == Raised("RuntimeError", <<"Error creating message", e.value[2]>>)
Reraise(e) == e

\* DirectAnthropicClient.get_client
DirectGetClient(c) ==
    IF c.direct # NoInstance THEN [c EXCEPT !.result = ReturnedClient(c.direct)]
    ELSE IF ~c.api_key_set
    THEN [c EXCEPT !.result = Raised("ValueError",
                                     "ANTHROPIC_API_KEY environment variable not set")]
    ELSE [c EXCEPT !.direct = "AsyncAnthropic",
                   !.result = ReturnedClient("AsyncAnthropic")]

\* BedrockAnthropicClient.get_client: AsyncAnthropicBedrock() is constructed
\* without a look at the AWS settings; the constructor returns or raises an
\* error of its own
BedrockGetClient(c, constructed) ==
    IF c.bedrock # NoInstance THEN [c EXCEPT !.result = ReturnedClient(c.bedrock)]
    ELSE IF constructed
    THEN [c EXCEPT !.bedrock = "AsyncAnthropicBedrock",
                   !.result = ReturnedClient("AsyncAnthropicBedrock")]
    ELSE [c EXCEPT !.result = Raised("AnthropicError", "constructor")]

\* AnthropicClientFactory.create_client
CreateClient(c) == IF c.use_bedrock THEN "BedrockAnthropicClient" ELSE "DirectAnthropicClient"

\* AnthropicClient.get_client
GetClient(c, constructed) ==
    LET c1 == IF c.facade = NoInstance THEN [c EXCEPT !.facade = CreateClient(c)] ELSE c
    IN IF c1.facade = "BedrockAnthropicClient"
       THEN BedrockGetClient(c1, constructed)
       ELSE DirectGetClient(c1)

InitClient ==
    /\ InitNoReview
    /\ svc = Idle /\ ev = Idle /\ fl = Idle /\ sel = Idle /\ wk = Idle /\ acq = Idle
    /\ \E b \in BOOLEAN, k \in BOOLEAN, a \in SUBSET AwsCredentialSettings :
           cli = [pc |-> "ready", op |-> "none",
                  use_bedrock |-> b, api_key_set |-> k, aws |-> a,
                  facade |-> NoInstance, direct |-> NoInstance, bedrock |-> NoInstance,
                  invocations |-> 0, api_calls |-> 0,
                  response |-> NoResponse, api_error |-> NoResult,
                  result |-> NoResult]

\* the next call starts with nothing sent and nothing received
FreshInvocation(c, op) ==
    [c EXCEPT !.op = op, !.invocations = @ + 1, !.api_calls = 0,
              !.response = NoResponse, !.api_error = NoResult, !.result = NoResult]

\* AnthropicClient.get_client()
CallGetClient ==
    /\ cli.pc \in {"ready", "returned", "raised"}
    /\ cli.invocations < MaxInvocations
    /\ \E constructed \in BOOLEAN :
           LET c == GetClient(FreshInvocation(cli, "get_client"), constructed) IN
           cli' = [c EXCEPT !.pc = IF c.result.kind = "raised" THEN "raised" ELSE "returned"]
    /\ UNCHANGED <<pipelineVars, svc, ev, fl, sel, wk, acq>>

\* create_message: client = cls.get_client(), then client.messages.create(...)
\* is awaited
CreateMessage ==
    /\ cli.pc \in {"ready", "returned", "raised"}
    /\ cli.invocations < MaxInvocations
    /\ \E constructed \in BOOLEAN :
           LET c == GetClient(FreshInvocation(cli, "create_message"), constructed) IN
           cli' = IF c.result.kind = "raised"
                  THEN [c EXCEPT !.pc = "raised"]
                  ELSE [c EXCEPT !.pc = "awaiting", !.api_calls = @ + 1,
                                 !.result = NoResult]
    /\ UNCHANGED <<pipelineVars, svc, ev, fl, sel, wk, acq>>

\* messages.create returns a response
ResponseArrives ==
    /\ cli.pc = "awaiting"
    /\ \E response \in Responses :
           LET res == ExtractText(response) IN
           cli' = IF res.kind = "raised"
                  THEN [cli EXCEPT !.pc = "raised", !.response = response,
                                   !.result = Reraise(res)]
                  ELSE [cli EXCEPT !.pc = "returned", !.response = response,
                                   !.result = res]
    /\ UNCHANGED <<pipelineVars, svc, ev, fl, sel, wk, acq>>

\* messages.create raises
ApiCallFails ==
    /\ cli.pc = "awaiting"
    /\ cli' = [cli EXCEPT !.pc = "raised", !.api_error = ApiError,
                          !.result = Reraise(ApiError)]
    /\ UNCHANGED <<pipelineVars, svc, ev, fl, sel, wk, acq>>

NextClient ==
    \/ CallGetClient
    \/ CreateMessage
    \/ ResponseArrives
    \/ ApiCallFails

SpecClient == InitClient /\ [][NextClient]_vars

\* the response holds a first content block with a text
HasExtractableText(response) ==
    /\ response.has_content
    /\ response.content # <<>>
    /\ response.content[1].has_text

\* C24: one call of create_message makes one model call and no more; when the
\* model call returns, create_message returns the text of the first content
\* block, or the empty string when the content list is empty or an attribute
\* is missing, and does not raise; when the model call raises, create_message
\* raises that same exception and makes no second call.
C24_OneCallTextOrEmptyOrReraise ==
    cli.pc # "idle" /\ cli.op = "create_message" =>
        /\ cli.api_calls <= 1
        /\ cli.pc = "returned" =>
               /\ cli.api_calls = 1
               /\ cli.response \in Responses
               /\ cli.result.kind = "text"
               /\ cli.result.value = IF HasExtractableText(cli.response)
                                     THEN cli.response.content[1].text
                                     ELSE ""
        /\ cli.response \in Responses => cli.pc = "returned"
        /\ cli.api_error # NoResult =>
               /\ cli.pc = "raised"
               /\ cli.api_calls = 1
               /\ cli.result = cli.api_error

\* C24 witness: a response with an empty content list has made create_message
\* return the empty string
C24_Witness ==
    /\ cli.pc = "returned"
    /\ cli.op = "create_message"
    /\ cli.response = ResponseOf(<<>>)
    /\ cli.result = ReturnedText("")
    /\ cli.api_calls = 1

\* the outcome C25 names: ValueError with the message about AWS credentials
AwsCredentialsError ==
    Raised("ValueError", "AWS credentials must be set for Bedrock")

\* C25: with Bedrock enabled and the three AWS credential settings unset,
\* get_client raises the ValueError about AWS credentials and returns no
\* client.
C25_BedrockWithoutCredentialsRaises ==
    (/\ cli.pc \in {"returned", "raised"}
     /\ cli.op = "get_client"
     /\ cli.use_bedrock
     /\ cli.aws = {}) =>
        /\ cli.pc = "raised"
        /\ cli.result = AwsCredentialsError


\* C26: every error that leaves process_code_review is a ProcessingError
\* whose message holds the text of the error of the step that failed
\* (status write, repository acquisition, classification), as every error
\* that leaves check_compliance is a CodeReviewError holding the text of the
\* lookup, read or model error.
C26_EveryErrorLeavesWrapped ==
    \A r \in ReviewIds :
        (Finished(r) /\ outcome[r] # "returned") =>
            /\ outcome[r] = "ProcessingError"
            /\ failedAt[r] \in {"in_progress_write", "acquisition", "classification",
                                "completed_write"}

---------------------------------------------------------------------------
(* run_async_in_process: the worker process starts with the module-level    *)
(* client of database_utils as the start method left it, creates a client   *)
(* of its own, runs the orchestrator and closes the client, while the       *)
(* request-serving process goes on using its own connection.                *)

\* database calls the orchestrator makes in one run
MaxDbCalls == 3

\* database calls the request-serving process makes meanwhile
MaxParentCalls == 2

\* database_utils.client of the worker when it starts: under fork a copy of
\* the client of the request-serving process, under spawn the client made when
\* the worker imported the module
StartMethods == {"fork", "spawn"}
ModuleLevelClient(method) ==
    IF method = "fork" THEN "copy_of_request_process_client" ELSE "import_time_client"

\* the client setup_process_database creates in the worker
WorkerClient == "worker_client"

\* the connection of the request-serving process
RequestProcessClient == "request_process_client"

\* get_database(): return db, the module global as it is at the call
GetDatabaseAtImport(w) == ModuleLevelClient(w.method)
GetDatabase(w) == w.db

InitWorker ==
    /\ InitNoReview
    /\ svc = Idle /\ ev = Idle /\ fl = Idle /\ sel = Idle /\ cli = Idle /\ acq = Idle
    /\ \E m \in StartMethods :
           wk = [pc |-> "start", method |-> m,
                 client |-> ModuleLevelClient(m), db |-> ModuleLevelClient(m),
                 created |-> FALSE, closed |-> {},
                 coro |-> "none", used |-> <<>>,
                 parent_used |-> <<>>, error |-> "none"]

\* wrapper(): func(*args, **kwargs) makes the coroutine object; none of its
\* statements runs before it is awaited
CreateCoroutine ==
    /\ wk.pc = "start"
    /\ wk' = [wk EXCEPT !.pc = "setup", !.coro = "created"]
    /\ UNCHANGED <<pipelineVars, svc, ev, fl, sel, cli, acq>>

\* await setup_process_database(): create_client() returns and both module
\* globals are replaced, or it raises and they stay as they were
SetupProcessDatabase ==
    /\ wk.pc = "setup"
    /\ \E ok \in BOOLEAN :
           wk' = IF ok
                 THEN [wk EXCEPT !.pc = "run", !.created = TRUE,
                                 !.client = WorkerClient, !.db = WorkerClient,
                                 !.coro = "running"]
                 ELSE [wk EXCEPT !.pc = "cleanup", !.error = "setup"]
    /\ UNCHANGED <<pipelineVars, svc, ev, fl, sel, cli, acq>>

\* return await coro: the orchestrator calls get_database() and uses the
\* connection it returns
OrchestratorDbCall ==
    /\ wk.pc = "run"
    /\ Len(wk.used) < MaxDbCalls
    /\ wk' = [wk EXCEPT !.used = Append(@, [conn |-> GetDatabase(wk),
                                             open |-> GetDatabase(wk) \notin wk.closed])]
    /\ UNCHANGED <<pipelineVars, svc, ev, fl, sel, cli, acq>>

\* the orchestrator returns
OrchestratorReturns ==
    /\ wk.pc = "run"
    /\ wk' = [wk EXCEPT !.pc = "cleanup", !.coro = "returned"]
    /\ UNCHANGED <<pipelineVars, svc, ev, fl, sel, cli, acq>>

\* the orchestrator raises
OrchestratorRaises ==
    /\ wk.pc = "run"
    /\ wk' = [wk EXCEPT !.pc = "cleanup", !.coro = "raised", !.error = "orchestrator"]
    /\ UNCHANGED <<pipelineVars, svc, ev, fl, sel, cli, acq>>

\* finally: await cleanup_process_database(): the client the module global
\* names is closed
CleanupProcessDatabase ==
    /\ wk.pc = "cleanup"
    /\ wk' = [wk EXCEPT !.pc = "exit", !.closed = @ \cup {wk.client}]
    /\ UNCHANGED <<pipelineVars, svc, ev, fl, sel, cli, acq>>

\* the request-serving process serves another request on its own connection
RequestProcessDbCall ==
    /\ wk.pc # "idle"
    /\ Len(wk.parent_used) < MaxParentCalls
    /\ wk' = [wk EXCEPT !.parent_used =
                  Append(@, [conn |-> RequestProcessClient,
                             open |-> RequestProcessClient \notin wk.closed])]
    /\ UNCHANGED <<pipelineVars, svc, ev, fl, sel, cli, acq>>

NextWorker ==
    \/ CreateCoroutine
    \/ SetupProcessDatabase
    \/ OrchestratorDbCall
    \/ OrchestratorReturns
    \/ OrchestratorRaises
    \/ CleanupProcessDatabase
    \/ RequestProcessDbCall

SpecWorker == InitWorker /\ [][NextWorker]_vars

\* C29: the orchestrator runs only after the worker has created and installed
\* a connection of its own; every database call of the orchestrator goes
\* through that connection while it is open, never through the client the
\* worker started with or the connection of the request-serving process; and
\* once the orchestrator has returned or raised and the worker has left
\* run_with_new_connection, the worker's connection is closed, and only then.
C29_WorkerOwnsItsConnection ==
    wk.pc # "idle" =>
        /\ wk.coro \in {"running", "returned", "raised"} =>
               /\ wk.created
               /\ wk.client = WorkerClient
               /\ wk.db = WorkerClient
        /\ \A k \in 1..Len(wk.used) :
               /\ wk.used[k].conn = WorkerClient
               /\ wk.used[k].open
        /\ wk.pc = "run" => WorkerClient \notin wk.closed
        /\ (wk.pc = "exit" /\ wk.coro \in {"returned", "raised"}) =>
               WorkerClient \in wk.closed
        /\ RequestProcessClient \notin wk.closed
        /\ \A k \in 1..Len(wk.parent_used) :
               wk.parent_used[k].conn = RequestProcessClient

\* C29 witness: a forked worker whose orchestrator made database calls and
\* then raised has left with its connection closed, while the request-serving
\* process made calls of its own
C29_Witness ==
    /\ wk.pc = "exit"
    /\ wk.method = "fork"
    /\ wk.coro = "raised"
    /\ Len(wk.used) >= 2
    /\ wk.parent_used # <<>>
    /\ wk.closed = {WorkerClient}


\* C34: a run that has returned has left the status COMPLETED, and a run that
\* has raised has raised ProcessingError and has left the status FAILED.
C34_OutcomeMatchesStatus ==
    \A r \in ReviewIds :
        Finished(r) =>
            /\ outcome[r] \in {"returned", "ProcessingError"}
            /\ outcome[r] = "returned" => status[r] = COMPLETED
            /\ outcome[r] = "ProcessingError" => status[r] = FAILED


\* the report files check_compliance wrote for review r
ReportFilesOf(r) ==
    { <<r, StandardSetName(standard_sets[r][produced[r][k]])>> : k \in 1..Len(produced[r]) }

\* C38: the cleanup step of a run removes no report file, and when a run has
\* ended, by returning or by raising, every report file that check_compliance
\* wrote for it still exists, whether or not the flattened codebase file was
\* removed.
C38_CleanupLeavesReportFiles ==
    /\ [][ \A r \in ReviewIds :
               (pc[r] = "cleanup" /\ pc'[r] = "done") => report_files' = report_files ]_vars
    /\ [](\A r \in ReviewIds : pc[r] \in {"cleanup", "done"} =>
              ReportFilesOf(r) \subseteq report_files)

\* C38 witness: a run that wrote a report file has failed at the COMPLETED
\* write, its flattened codebase file has been removed and the report file is
\* still there
C38_Witness ==
    \E r \in ReviewIds :
        /\ Finished(r)
        /\ status[r] = FAILED
        /\ produced[r] # <<>>
        /\ codebase_file[r] # NoPath
        /\ ~fs[codebase_file[r]].exists
        /\ ReportFilesOf(r) \subseteq report_files


\* positions of the request's standard-set ids that are malformed or have no
\* standard-set record
BadStandardSetIdx ==
    { i \in 1..Len(svc.request.standard_sets) :
          \/ ~ValidObjectIdFormat(svc.request.standard_sets[i])
          \/ ~FindStandardSet(svc.request.standard_sets[i]) }

\* C32: create_review creates the review only after every requested id has
\* passed validation; when some id is malformed or has no record the call
\* never persists a review and never starts a worker, it ends only by
\* raising, and the error raised at such an id is ValueError.
C32_ValidationBeforeCreate ==
    svc.pc # "idle" =>
        /\ status[NewReviewId] # NoReview => BadStandardSetIdx = {}
        /\ BadStandardSetIdx # {} =>
               /\ status[NewReviewId] = NoReview
               /\ svc.workers_started = 0
               /\ pc[NewReviewId] = "none"
               /\ svc.pc \in {"validate", "raised"}
               /\ svc.pc = "validate" => \A i \in BadStandardSetIdx : svc.i <= i
        /\ (svc.pc = "raised" /\ svc.error = "ValueError") =>
               /\ svc.i \in BadStandardSetIdx
               /\ svc.created_review = NoReviewObject
        /\ (svc.pc = "raised" /\ svc.i \in BadStandardSetIdx /\ svc.error # "db_error") =>
               svc.error = "ValueError"

\* C32 witness: the first id of the request was valid, the second has no
\* record, and the call has raised ValueError with nothing created
C32_Witness ==
    /\ svc.pc = "raised"
    /\ svc.error = "ValueError"
    /\ svc.i = 2
    /\ ValidObjectIdFormat(svc.request.standard_sets[2])
    /\ ~FindStandardSet(svc.request.standard_sets[2])
    /\ status[NewReviewId] = NoReview

---------------------------------------------------------------------------
(* process_repositories called on its own: the output directory with the    *)
(* files earlier runs left in it, the temporary directory of the call, and  *)
(* the global git configuration that configure_git_proxy writes.            *)

\* settings.CDP_HTTPS_PROXY and settings.CDP_HTTP_PROXY: which of them is set
ProxySettings == SUBSET {"CDP_HTTPS_PROXY", "CDP_HTTP_PROXY"}

\* https.proxy and http.proxy of the global git configuration: unset, a value
\* the user had put there, or the value of one of the two settings
GitConfigBefore == {"unset", "user_value"}

\* configure_git_proxy: both keys are set to the HTTPS proxy when there is
\* one, else to the HTTP proxy when there is one, else nothing is written
ConfigureGitProxy(settings, config) ==
    IF "CDP_HTTPS_PROXY" \in settings THEN "CDP_HTTPS_PROXY"
    ELSE IF "CDP_HTTP_PROXY" \in settings THEN "CDP_HTTP_PROXY"
    ELSE config

\* the files of the output directory before the call: none when the
\* directory does not exist yet, else any of the flattened files left there
OutputDirsBefore ==
    { [exists |-> FALSE, files |-> [p \in ArtifactPaths |-> "absent"]] }
    \cup { [exists |-> TRUE, files |-> f] : f \in [ArtifactPaths -> {"absent", "old"}] }

\* the temporary directory of the call
TempDir == "tmp"

\* leaving "with tempfile.TemporaryDirectory() as temp_dir": the directory
\* and the clone in it are removed
TempDirsKept(dirs) == dirs
TempDirsAfterWith(dirs) == dirs \ {TempDir}

\* except Exception as e: logger.error(...); raise
RaiseAgain(e) == e

InitAcquire ==
    /\ InitNoReview
    /\ svc = Idle /\ ev = Idle /\ fl = Idle /\ sel = Idle /\ cli = Idle /\ wk = Idle
    /\ \E u \in RepositoryUrls, s \in ProxySettings, g \in GitConfigBefore,
          o \in OutputDirsBefore :
           acq = [pc |-> "mkdir", url |-> u, settings |-> s,
                  git_config |-> g, output_dir |-> o, temp_dirs |-> {},
                  before |-> [git_config |-> g, output_dir |-> o],
                  cloned |-> FALSE, pending |-> "none", raised |-> "none",
                  result |-> NoPath]

\* CODEBASE_DIR.mkdir(parents=True, exist_ok=True)
MakeCodebaseDir ==
    /\ acq.pc = "mkdir"
    /\ \E ok \in BOOLEAN :
           acq' = IF ok \/ acq.output_dir.exists
                  THEN [acq EXCEPT !.pc = "tempdir", !.output_dir.exists = TRUE]
                  ELSE [acq EXCEPT !.pc = "raised", !.raised = RaiseAgain("mkdir_error")]
    /\ UNCHANGED <<pipelineVars, svc, ev, fl, sel, cli, wk>>

\* with tempfile.TemporaryDirectory() as temp_dir
CreateTempDir ==
    /\ acq.pc = "tempdir"
    /\ \E ok \in BOOLEAN :
           acq' = IF ok
                  THEN [acq EXCEPT !.pc = "clone", !.temp_dirs = @ \cup {TempDir}]
                  ELSE [acq EXCEPT !.pc = "raised", !.raised = RaiseAgain("tempdir_error")]
    /\ UNCHANGED <<pipelineVars, svc, ev, fl, sel, cli, wk>>

\* await clone_repo(repository_url, code_repo_dir): the proxy is configured,
\* then git.Repo.clone_from clones into the temporary directory
CloneRepo ==
    /\ acq.pc = "clone"
    /\ \E res \in {"proxy_error", "clone_error", "ok"} :
           acq' = CASE res = "proxy_error" /\ acq.settings # {} ->
                           [acq EXCEPT !.pc = "exit", !.pending = "proxy_error"]
                    [] res = "clone_error" ->
                           [acq EXCEPT !.pc = "exit", !.pending = "clone_error",
                                       !.git_config = ConfigureGitProxy(acq.settings, @)]
                    [] OTHER ->
                           [acq EXCEPT !.pc = "flatten", !.cloned = TRUE,
                                       !.git_config = ConfigureGitProxy(acq.settings, @)]
    /\ UNCHANGED <<pipelineVars, svc, ev, fl, sel, cli, wk>>

\* await flatten_repository(code_repo_dir, codebase_file): the output file is
\* opened for writing and the clone is walked; an error before the open
\* leaves the file as it was, an error after it leaves a file cut short
FlattenRepository ==
    /\ acq.pc = "flatten"
    /\ LET path == CodebaseFilePath(acq.url) IN
       \E res \in {"open_error", "walk_error", "ok"} :
           acq' = CASE res = "open_error" ->
                           [acq EXCEPT !.pc = "exit", !.pending = "flatten_error"]
                    [] res = "walk_error" ->
                           [acq EXCEPT !.pc = "exit", !.pending = "flatten_error",
                                       !.output_dir.files[path] = "partial"]
                    [] OTHER ->
                           [acq EXCEPT !.pc = "exit", !.result = path,
                                       !.output_dir.files[path] = "new"]
    /\ UNCHANGED <<pipelineVars, svc, ev, fl, sel, cli, wk>>

\* the with block is left, by "return codebase_file" or by the exception,
\* which the except clause logs and raises again
LeaveTempDir ==
    /\ acq.pc = "exit"
    /\ acq' = IF acq.pending = "none"
              THEN [acq EXCEPT !.pc = "returned",
                               !.temp_dirs = TempDirsAfterWith(@)]
              ELSE [acq EXCEPT !.pc = "raised", !.raised = RaiseAgain(acq.pending),
                               !.temp_dirs = TempDirsAfterWith(@)]
    /\ UNCHANGED <<pipelineVars, svc, ev, fl, sel, cli, wk>>

NextAcquire ==
    \/ MakeCodebaseDir
    \/ CreateTempDir
    \/ CloneRepo
    \/ FlattenRepository
    \/ LeaveTempDir

SpecAcquire == InitAcquire /\ [][NextAcquire]_vars

\* the call has returned or raised
AcquireEnded == acq.pc \in {"returned", "raised"}

\* the files of the output directory other than the artifact of this call
\* are as they were
OtherFilesUntouched ==
    \A p \in ArtifactPaths \ {CodebaseFilePath(acq.url)} :
        acq.output_dir.files[p] = acq.before.output_dir.files[p]

\* C31 as stated: when the call has ended no temporary directory exists; on
\* success the one artifact file under the output directory is all the call
\* has left behind; when the clone failed the clone's error is raised and no
\* artifact file was created or modified.
C31_OnlyArtifactLeftBehind ==
    AcquireEnded =>
        /\ acq.temp_dirs = {}
        /\ acq.pc = "returned" =>
               /\ acq.output_dir.files[CodebaseFilePath(acq.url)] = "new"
               /\ OtherFilesUntouched
               /\ acq.git_config = acq.before.git_config
        /\ acq.raised = "clone_error" =>
               acq.output_dir.files = acq.before.output_dir.files

\* C31: when the call has ended no temporary directory exists; on success
\* the call has left behind one artifact file in the output directory, which
\* it creates when missing, and, when a proxy is configured, the proxy entries
\* it wrote to the global git configuration; when the clone failed the clone's
\* error is raised, no artifact file was created or modified, and the proxy
\* entries were written all the same.
C31_ArtifactAndProxyConfigLeftBehind ==
    AcquireEnded =>
        /\ acq.temp_dirs = {}
        /\ acq.pc = "returned" =>
               /\ acq.result = CodebaseFilePath(acq.url)
               /\ acq.output_dir.exists
               /\ acq.output_dir.files[CodebaseFilePath(acq.url)] = "new"
               /\ OtherFilesUntouched
               /\ acq.git_config =
                      IF "CDP_HTTPS_PROXY" \in acq.settings THEN "CDP_HTTPS_PROXY"
                      ELSE IF "CDP_HTTP_PROXY" \in acq.settings THEN "CDP_HTTP_PROXY"
                      ELSE acq.before.git_config
        /\ (acq.pc = "raised" /\ acq.pending = "clone_error") =>
               /\ acq.raised = "clone_error"
               /\ acq.output_dir.files = acq.before.output_dir.files
               /\ acq.settings # {} => acq.git_config \in {"CDP_HTTPS_PROXY", "CDP_HTTP_PROXY"}

\* C31 witness: with a proxy configured and an older artifact of the same
\* repository in the output directory, the clone has failed and the call has
\* raised
C31_Witness ==
    /\ acq.pc = "raised"
    /\ acq.raised = "clone_error"
    /\ acq.settings # {}
    /\ acq.before.output_dir.files[CodebaseFilePath(acq.url)] = "old"
    /\ acq.temp_dirs = {}


\* C33: within one review, counting the calls of check_compliance for all its
\* standard sets, every evaluator invocation but the first starts at least the
\* rate-limit delay after the invocation before it has ended.
C33_DelayBetweenAllInvocations ==
    ev.pc # "idle" =>
        \A k \in 1..(Len(ev.invoked_at) - 1) :
            ev.invoked_at[k + 1] >= ev.ended[k].at + SleepSeconds * TicksPerSecond


\* C36: a call of check_compliance that was given a non-empty selection of
\* standards, as process_code_review gives it, and has returned the report
\* that is then attached, has made at least one model invocation and has put
\* the report text of at least one standard into the report, whatever the
\* testing configuration.
C36_ReportHasAStandardsText ==
    (ev.pc = "returned" /\ ev.standards # <<>>) =>
        /\ Len(ev.sent) >= 1
        /\ Len(ev.text[ev.run].reports) >= 1


\* C35: a response without extractable text never makes the call fail; the
\* empty string is recorded as the report of that standard, at that
\* standard's place, the loop goes on to the standards after it, and the call
\* returns a report file holding one entry per standard of the filtered list.
C35_EmptyResponseDoesNotAbort ==
    ev.pc # "idle" =>
        /\ ev.failed_step # "extract"
        /\ Len(ev.reports) <= Len(ev.filtered_standards)
        /\ \A k \in 1..Len(ev.reports) :
               /\ ev.reports[k].standard = ev.filtered_standards[k].id
               /\ ev.reports[k].text = IF ev.filtered_standards[k].id \in ev.silent
                                       THEN ""
                                       ELSE ev.filtered_standards[k].text
        /\ (ev.pc = "sleep" /\ ev.filtered_standards[ev.i].id \in ev.silent) =>
               /\ Len(ev.reports) = ev.i
               /\ ev.reports[ev.i].text = ""
        /\ ev.pc = "returned" =>
               /\ Len(ev.sent) = Len(ev.filtered_standards)
               /\ ev.text[ev.run].written
               /\ ev.text[ev.run].reports = ev.reports
               /\ Len(ev.reports) = Len(ev.filtered_standards)

\* C35 witness: the first of two standards got a response without text, the
\* second got a text, and the call has returned with both entries
C35_Witness ==
    /\ ev.pc = "returned"
    /\ ev.run = 1
    /\ Len(ev.filtered_standards) = 2
    /\ ev.filtered_standards[1].id \in ev.silent
    /\ ev.filtered_standards[2].id \notin ev.silent
    /\ ev.text[1].reports[1].text = ""
    /\ ev.text[1].reports[2].text # ""


---------------------------------------------------------------------------
(* The input of classification matching.                                    *)

\* codebase_file.parent, the first argument of analyze_codebase_classifications
MatcherDirectory(path) == <<path[1]>>

\* the flattened artifacts that exist in a directory
ArtifactsIn(dir) == { p \in ArtifactPaths : fs[p].exists /\ <<p[1]>> = dir }

\* the report files <<review, set name>> that exist in a directory
ReportsIn(dir) ==
    { f \in report_files : MatcherDirectory(ReportFilePath(dir, f[1], f[2])) = dir }

\* the files of other reviews among those the matcher of review r is handed
ForeignFilesHanded(r) ==
    { p \in ArtifactsIn(MatcherDirectory(codebase_file[r])) :
          p # codebase_file[r] \/ fs[p].writer # r }
    \cup { f \in ReportsIn(MatcherDirectory(codebase_file[r])) : f[1] # r }

\* C37: when the classifications of a review are matched, the directory
\* handed to the matcher holds no file of another review: no artifact but
\* the review's own, written by the review itself, and no report file of
\* another review.
C37_MatcherSeesOwnArtifactOnly ==
    [][ \A r \in ReviewIds :
            (pc[r] = "classify" /\ pc'[r] = "loop") => ForeignFilesHanded(r) = {} ]_vars

====
